---- MODULE Spec2Model ----
(***************************************************************************)
(* cpustate-tui: the interrupt-driven event and rendering core.            *)
(*                                                                         *)
(* Two execution contexts are modelled: interrupt context (timer and COM1  *)
(* handlers, src/kernel/src/interrupts.rs) and the main loop               *)
(* (App::run, src/kernel/src/app.rs).  Bytes and names are ASCII codes;    *)
(* strings are sequences of ASCII codes.                                   *)
(***************************************************************************)
EXTENDS Integers, Sequences, FiniteSets, TLC

VARIABLES
    tick,            \* interrupts.rs TICK_COUNT
    second_events,   \* interrupts.rs SECOND_EVENTS
    print_events,    \* interrupts.rs PRINT_EVENTS
    uart_rx,         \* bytes waiting in the UART receive FIFO, oldest first
    queue,           \* serial.rs RX_QUEUE contents, oldest first
    irq_enabled,     \* RFLAGS.IF of the main-loop context
    lock,            \* holder of the RX_QUEUE mutex: "none" or "main"
    isr_spinning,    \* an interrupt handler waits for a lock the main loop holds
    pc,              \* position of the main loop inside App::run
    needs_redraw,    \* App::run local
    event,           \* App::run local: result of handle_input
    app_tick_count,  \* App.tick_count
    hue,             \* App.hue
    mode,            \* App.mode
    pane,            \* App.pane
    scroll_hints,    \* App.scroll_hints.cpuid and App.fpu_state.scroll
    search_buffer,   \* App.search_buffer
    search_state,    \* App.search_state.inner
    input,           \* Input { in_sequence, in_sequence_since }
    has_avx2,        \* FpuState.has_avx2
    backend,         \* SerialAnsiBackend { prev, force_full_repaint }
    term,            \* the terminal behind the serial port: what it shows
    irq,             \* the interrupt handler in progress and the local APIC's EOI count
    boot_tick,       \* history: TICK_COUNT when App::run was entered
    accepted,        \* history: bytes for which enqueue returned Ok
    delivered,       \* history: bytes returned by dequeue
    dropped,         \* history: number of bytes for which enqueue failed
    second_returned, \* history: sum of the values read back from SECOND_EVENTS
    print_returned,  \* history: sum of the values read back from PRINT_EVENTS
    last,            \* history: the most recent operation and its inputs
    prev             \* history: what the formulas need of earlier operations

vars == <<tick, second_events, print_events, uart_rx, queue,
          irq_enabled, lock,
          isr_spinning, pc, needs_redraw, event, app_tick_count, hue, mode,
          pane, scroll_hints, search_buffer, search_state, input, has_avx2, backend, term, irq,
          boot_tick, accepted, delivered, dropped, second_returned,
          print_returned, last, prev>>

hw_vars == <<tick, second_events, print_events, uart_rx, queue,
          irq_enabled, lock,
             isr_spinning>>

ui_vars == <<app_tick_count, hue, mode, pane, scroll_hints, search_buffer,
             search_state, has_avx2, backend, term, irq>>

hist_vars == <<boot_tick, accepted, delivered, dropped, second_returned,
               print_returned>>

-----------------------------------------------------------------------------
(* Bounds of the model.                                                    *)

\* small offsets 0..MaxSmall and the top MaxSmall+1 values of u16 are explored
MaxSmall == 3

\* SpecScroll applies at most MaxOps scroll operations to each initial ScrollHints
MaxOps == 3

\* SpecInput lets TICK_COUNT run up to MaxInputTick
MaxInputTick == 80

\* Spec: the N of RX_QUEUE's Queue<u8, N> (256 in serial.rs)
RX_QUEUE_N == 3

\* Spec: the number of bytes the UART receives
MaxBytes == 3

\* Spec: the number of timer interrupts taken after App::run starts
MaxTicks == 1

\* SpecUi: the number of keys the terminal sends
MaxKeys == 5

\* SpecRender: the width and height of the backend's area (80 x 24 in App::run)
GridWidth == 2
GridHeight == 2

\* SpecRender: the number of cell updates one draw call carries
MaxUpdates == 2

\* SpecRenderFail: the number of backend calls followed
MaxCalls == 2

\* SpecIrq: the number of interrupts delivered
MaxIrqs == 4

\* SpecCalib: the LAPIC ticks counted during a calibration run
MaxElapsed == 12

\* SpecSmart: the length of a haystack and of a query
MaxStr == 3

\* SpecFind: the number of feature names searched
MaxNames == 3

\* SpecIndex: the number of labels in a section of a pane
MaxSection == 3

\* SpecIndex: the number of MSR categories
MaxCats == 3

-----------------------------------------------------------------------------
(* Machine arithmetic.                                                     *)

U16_MAX == 65535

Min(a, b) == IF a < b THEN a ELSE b

saturating_sub(a, b) == IF a > b THEN a - b ELSE 0

saturating_add_u16(a, b) == Min(a + b, U16_MAX)

\* `a + b` on u16 in a build without overflow checks
wrapping_add_u16(a, b) == (a + b) % (U16_MAX + 1)

\* `n as u16`
as_u16(n) == n % (U16_MAX + 1)

-----------------------------------------------------------------------------
(* Scroll model: src/kernel/src/scroll.rs                                  *)

ScrollDirection == {"Up", "Down", "Top", "Bottom", "PageUp", "PageDown"}

ScrollHintsDefault == [max_offset |-> 0, y_offset |-> 0, page_height |-> 0]

update_from_render(h, n_lines, area_height) ==
    [h EXCEPT !.max_offset = saturating_sub(as_u16(n_lines), area_height),
              !.page_height = saturating_sub(area_height, 2)]

scroll_down_unguarded(h) ==
    [h EXCEPT !.y_offset = saturating_add_u16(h.y_offset, 1)]

scroll_down(h) ==
    IF h.y_offset < h.max_offset
    THEN [h EXCEPT !.y_offset = saturating_add_u16(h.y_offset, 1)]
    ELSE h

\* the sum in PageDown exceeds u16: a build with overflow checks panics there
page_down_overflows(h) == h.y_offset + h.page_height > U16_MAX

scroll(h, direction) ==
    CASE direction = "Up" ->
            [h EXCEPT !.y_offset = saturating_sub(h.y_offset, 1)]
      [] direction = "Down" -> scroll_down(h)
      [] direction = "Top" -> [h EXCEPT !.y_offset = 0]
      [] direction = "Bottom" -> [h EXCEPT !.y_offset = h.max_offset]
      [] direction = "PageUp" ->
            [h EXCEPT !.y_offset = saturating_sub(h.y_offset, h.page_height)]
      [] direction = "PageDown" ->
            [h EXCEPT !.y_offset =
                Min(wrapping_add_u16(h.y_offset, h.page_height), h.max_offset)]

scroll_to(h, offset) == [h EXCEPT !.y_offset = Min(offset, h.max_offset)]

\* what scroll(direction) can do: a PageDown whose sum exceeds u16 wraps in a
\* build without overflow checks and panics in a build with them
ScrollOutcomes(h, direction) ==
    IF direction = "PageDown" /\ page_down_overflows(h)
    THEN {[hints |-> scroll(h, direction), panic |-> FALSE],
          [hints |-> h, panic |-> TRUE]}
    ELSE {[hints |-> scroll(h, direction), panic |-> FALSE]}

-----------------------------------------------------------------------------
(* Tick source: src/kernel/src/interrupts.rs, src/kernel/src/lapic.rs      *)

TARGET_TIMER_HZ == 100

TICKS_PER_EVENT == TARGET_TIMER_HZ

TICKS_PER_SECOND == TARGET_TIMER_HZ

is_multiple_of(n, d) == n % d = 0

\* the event counters kept as flags instead of counts
timer_interrupt_handler_flags(st) ==
    LET ticks == st.tick + 1 IN
    [tick |-> ticks,
     second_events |-> IF is_multiple_of(ticks, TICKS_PER_SECOND)
                       THEN 1 ELSE st.second_events,
     print_events |-> IF is_multiple_of(ticks, TICKS_PER_EVENT)
                      THEN 1 ELSE st.print_events]

\* the three statics after one run of timer_interrupt_handler
timer_interrupt_handler(st) ==
    LET ticks == st.tick + 1 IN
    [tick |-> ticks,
     second_events |-> IF is_multiple_of(ticks, TICKS_PER_SECOND)
                       THEN st.second_events + 1 ELSE st.second_events,
     print_events |-> IF is_multiple_of(ticks, TICKS_PER_EVENT)
                      THEN st.print_events + 1 ELSE st.print_events]

\* the statics after n consecutive runs of timer_interrupt_handler
RECURSIVE timer_interrupts(_, _)
timer_interrupts(st, n) ==
    IF n = 0 THEN st ELSE timer_interrupts(timer_interrupt_handler(st), n - 1)

Statics == [tick |-> tick, second_events |-> second_events,
            print_events |-> print_events]

\* a read that returns more than the counter holds
tick_count_ahead(st) == st.tick + 1

\* interrupts::tick_count: TICK_COUNT.load
tick_count(st) == st.tick

\* a read of an event counter that counts one more instead of storing v
atomic_swap_counts(cur, v) == [old |-> cur, new |-> cur + 1]

\* AtomicUsize::swap(v): the value returned and the value stored
atomic_swap(cur, v) == [old |-> cur, new |-> v]

\* a handle_ticks that asks for a redraw on every wake-up
handle_ticks_always(color_seen, seconds) == TRUE

\* App::handle_ticks, its result: `color_events > 0 || second_events > 0`
handle_ticks(color_seen, seconds) == color_seen \/ seconds > 0

-----------------------------------------------------------------------------
(* Input state machine: src/kernel/src/input.rs                            *)

SEQUENCE_TIMEOUT_TICKS == TARGET_TIMER_HZ \div 2

B_ESC == 27
B_BACKSPACE == 8
B_DEL == 127
B_ENTER == 13
B_CTRL_F == 6
B_CTRL_B == 2
B_SPACE == 32
B_SLASH == 47
B_N == 78
B_G == 71
B_c == 99
B_f == 102
B_g == 103
B_j == 106
B_k == 107
B_n == 110
B_q == 113
B_s == 115
B_t == 116
B_x == 120

Ev(t) == [type |-> t]

\* handle_byte returned None
NoEvent == [type |-> "None"]

\* `delta > SEQUENCE_TIMEOUT_TICKS` with delta = now.saturating_sub(since)
timeout_expired_at_limit(now, since) ==
    saturating_sub(now, since) >= SEQUENCE_TIMEOUT_TICKS

timeout_never_expires(now, since) == FALSE

timeout_expired(now, since) ==
    saturating_sub(now, since) > SEQUENCE_TIMEOUT_TICKS

\* Input::handle_sequence: the Input afterwards and the returned bool
handle_sequence(inp, seq, now) ==
    IF inp.in_sequence = "None"
    THEN [input |-> [in_sequence |-> seq, in_sequence_since |-> now],
          finalized |-> FALSE]
    ELSE IF inp.in_sequence # "gg"
    THEN [input |-> [inp EXCEPT !.in_sequence = "None"], finalized |-> FALSE]
    ELSE IF timeout_expired(now, inp.in_sequence_since)
    THEN [input |-> [inp EXCEPT !.in_sequence_since = now], finalized |-> FALSE]
    ELSE [input |-> [inp EXCEPT !.in_sequence = "None"], finalized |-> TRUE]

\* Search mode taking every other byte as input too
handle_byte_search_takes_all(byte) ==
    IF byte = B_ESC THEN Ev("ExitSearchMode")
    ELSE IF byte = B_DEL \/ byte = B_BACKSPACE THEN Ev("SearchBackspace")
    ELSE IF byte = B_ENTER THEN Ev("ConfirmSearch")
    ELSE [type |-> "SearchInput", b |-> byte]

\* handle_byte, the arms of Mode::Search
handle_byte_search(byte) ==
    IF byte = B_ESC THEN Ev("ExitSearchMode")
    ELSE IF byte = B_DEL \/ byte = B_BACKSPACE THEN Ev("SearchBackspace")
    ELSE IF byte = B_ENTER THEN Ev("ConfirmSearch")
    ELSE IF byte >= B_SPACE /\ byte < B_DEL
    THEN [type |-> "SearchInput", b |-> byte]
    ELSE NoEvent

\* SearchResults mode selecting panes as Navigation mode does
handle_byte_search_results_selects(byte) ==
    IF byte = B_ESC \/ byte = B_ENTER THEN Ev("ExitSearchMode")
    ELSE IF byte = B_n THEN Ev("NextMatch")
    ELSE IF byte = B_N THEN Ev("PrevMatch")
    ELSE IF byte = B_SLASH THEN Ev("EnterSearchMode")
    ELSE IF byte = B_x THEN [type |-> "SelectPane", pane |-> "Xsave"]
    ELSE NoEvent

\* handle_byte, the arms of Mode::SearchResults
handle_byte_search_results(byte) ==
    IF byte = B_ESC \/ byte = B_ENTER THEN Ev("ExitSearchMode")
    ELSE IF byte = B_n THEN Ev("NextMatch")
    ELSE IF byte = B_N THEN Ev("PrevMatch")
    ELSE IF byte = B_SLASH THEN Ev("EnterSearchMode")
    ELSE NoEvent

\* '/' enters Search mode whatever the active pane
handle_byte_navigation_any_pane(p, byte) ==
    IF byte = B_q THEN Ev("Quit")
    ELSE IF byte = B_SLASH THEN Ev("EnterSearchMode")
    ELSE IF byte = B_c THEN [type |-> "SelectPane", pane |-> "Cpuid"]
    ELSE IF byte = B_f THEN [type |-> "SelectPane", pane |-> "Fpu"]
    ELSE IF byte = B_x THEN [type |-> "SelectPane", pane |-> "Xsave"]
    ELSE IF byte = B_t THEN [type |-> "SelectPane", pane |-> "Timer"]
    ELSE IF byte = B_j THEN Ev("ScrollDown")
    ELSE IF byte = B_k THEN Ev("ScrollUp")
    ELSE IF byte = B_G THEN Ev("ScrollToBottom")
    ELSE IF byte = B_CTRL_F THEN Ev("PageDown")
    ELSE IF byte = B_CTRL_B THEN Ev("PageUp")
    ELSE NoEvent

\* the Navigation arms that return an event without touching the Input
handle_byte_navigation_plain(p, byte) ==
    IF byte = B_q THEN Ev("Quit")
    ELSE IF byte = B_SLASH /\ p = "Cpuid" THEN Ev("EnterSearchMode")
    ELSE IF byte = B_c THEN [type |-> "SelectPane", pane |-> "Cpuid"]
    ELSE IF byte = B_f THEN [type |-> "SelectPane", pane |-> "Fpu"]
    ELSE IF byte = B_x THEN [type |-> "SelectPane", pane |-> "Xsave"]
    ELSE IF byte = B_t THEN [type |-> "SelectPane", pane |-> "Timer"]
    ELSE IF byte = B_j THEN Ev("ScrollDown")
    ELSE IF byte = B_k THEN Ev("ScrollUp")
    ELSE IF byte = B_G THEN Ev("ScrollToBottom")
    ELSE IF byte = B_CTRL_F THEN Ev("PageDown")
    ELSE IF byte = B_CTRL_B THEN Ev("PageUp")
    ELSE NoEvent

\* Input::handle_byte (build without the "msr" feature): the returned event
\* and the Input afterwards; now is interrupts::tick_count() at the call
handle_byte(m, p, inp, byte, now) ==
    IF m = "Search"
    THEN [event |-> handle_byte_search(byte), input |-> inp]
    ELSE IF m = "SearchResults"
    THEN [event |-> handle_byte_search_results(byte), input |-> inp]
    ELSE IF handle_byte_navigation_plain(p, byte) # NoEvent
    THEN [event |-> handle_byte_navigation_plain(p, byte), input |-> inp]
    ELSE IF byte = B_g
    THEN LET r == handle_sequence(inp, "gg", now) IN
         [event |-> IF r.finalized THEN Ev("ScrollToTop") ELSE NoEvent,
          input |-> r.input]
    ELSE [event |-> NoEvent, input |-> [inp EXCEPT !.in_sequence = "None"]]

\* App::run, the arms of `match event` that assign self.mode
mode_after(ev, m) ==
    IF ev.type = "EnterSearchMode" THEN "Search"
    ELSE IF ev.type = "ConfirmSearch" THEN "SearchResults"
    ELSE IF ev.type = "ExitSearchMode" THEN "Navigation"
    ELSE m

\* App::run, the arm of `match event` that assigns self.pane
pane_after(ev, p) == IF ev.type = "SelectPane" THEN ev.pane ELSE p

-----------------------------------------------------------------------------
(* Search model: src/search/src/lib.rs                                     *)

B_e == 101
B_E == 69
B_F == 70
B_A == 65
B_Z == 90

is_uppercase(c) == c >= B_A /\ c <= B_Z

\* char::to_lowercase on ASCII: 'A'..'Z' move to 'a'..'z'
char_to_lowercase(c) == IF is_uppercase(c) THEN c + 32 ELSE c

to_lowercase(s) == [i \in 1 .. Len(s) |-> char_to_lowercase(s[i])]

has_uppercase(s) == \E i \in 1 .. Len(s) : is_uppercase(s[i])

\* str::contains
contains(haystack, needle) ==
    \E i \in 0 .. (Len(haystack) - Len(needle)) :
        SubSeq(haystack, i + 1, i + Len(needle)) = needle

\* a match that ignores case whatever the query
smart_contains_ignore_case(haystack, needle) ==
    contains(to_lowercase(haystack), to_lowercase(needle))

smart_contains(haystack, needle) ==
    IF has_uppercase(needle)
    THEN contains(haystack, needle)
    ELSE contains(to_lowercase(haystack), to_lowercase(needle))

\* find_matches over names[i..]; line is the offset of names[i], a u16 the
\* loop increments after every name (here as a build without overflow checks
\* does it)
RECURSIVE find_matches_from(_, _, _, _)
find_matches_from(query, names, i, line) ==
    IF i > Len(names) THEN <<>>
    ELSE (IF smart_contains(names[i], query) THEN <<line>> ELSE <<>>)
         \o find_matches_from(query, names, i + 1, wrapping_add_u16(line, 1))

find_matches(query, names, start_line) ==
    find_matches_from(query, names, 1, start_line)

\* find_matches in either build: when a `line += 1` leaves u16 the build with
\* overflow checks panics, the other goes on with the wrapped offset
find_matches_outcomes(query, names, start_line) ==
    {[panic |-> FALSE, matches |-> find_matches(query, names, start_line)]}
        \cup (IF start_line + Len(names) > U16_MAX
              THEN {[panic |-> TRUE, matches |-> <<>>]} ELSE {})

\* next without the wrap to the first match
SearchState_next_no_wrap(s) ==
    IF s.matches = <<>> THEN [state |-> s, some |-> FALSE, offset |-> "None"]
    ELSE LET c == s.current_match + 1 IN
         [state |-> [s EXCEPT !.current_match = c], some |-> TRUE,
          offset |-> s.matches[Min(c + 1, Len(s.matches))]]

\* SearchState::next: the state afterwards and the returned Option<u16>
SearchState_next(s) ==
    IF s.matches = <<>> THEN [state |-> s, some |-> FALSE, offset |-> "None"]
    ELSE LET c == (s.current_match + 1) % Len(s.matches) IN
         [state |-> [s EXCEPT !.current_match = c], some |-> TRUE,
          offset |-> s.matches[c + 1]]

\* prev stays on the first match instead of wrapping to the last
SearchState_prev_no_wrap(s) ==
    IF s.matches = <<>> THEN [state |-> s, some |-> FALSE, offset |-> "None"]
    ELSE LET c == IF s.current_match = 0 THEN 0 ELSE s.current_match - 1 IN
         [state |-> [s EXCEPT !.current_match = c], some |-> TRUE,
          offset |-> s.matches[c + 1]]

\* SearchState::prev
SearchState_prev(s) ==
    IF s.matches = <<>> THEN [state |-> s, some |-> FALSE, offset |-> "None"]
    ELSE LET c == IF s.current_match = 0 THEN Len(s.matches) - 1
                  ELSE s.current_match - 1 IN
         [state |-> [s EXCEPT !.current_match = c], some |-> TRUE,
          offset |-> s.matches[c + 1]]

SearchStateDefault == [matches |-> <<>>, current_match |-> 0, last_query |-> <<>>]

\* a clear that keeps the last query
SearchState_clear_keeps_query(s) ==
    [s EXCEPT !.matches = <<>>, !.current_match = 0]

\* SearchState::clear
SearchState_clear(s) == SearchStateDefault

-----------------------------------------------------------------------------
(* Pane contents: src/kernel/src/cpuid.rs, src/kernel/src/fpu.rs.  The     *)
(* lists are the machine's; a few of the names of each list are kept, in   *)
(* the order of the source.                                                *)

\* "fma", "fpu", "tsc", "x2apic", "xsave"
Features ==
    << <<102, 109, 97>>, <<102, 112, 117>>,
       <<116, 115, 99>>, <<120, 50, 97, 112, 105, 99>>,
       <<120, 115, 97, 118, 101>> >>

\* "fsgsbase", "rtm", "sgx", "smap"
ExtendedFeatures ==
    << <<102, 115, 103, 115, 98, 97, 115, 101>>, <<114, 116, 109>>,
       <<115, 103, 120>>, <<115, 109, 97, 112>> >>

\* "xcr0_supports_sse_128", "xcr0_supports_avx_256", "has_xsaveopt", "has_xsavec"
Supports ==
    << <<120, 99, 114, 48, 95, 115, 117, 112, 112, 111, 114, 116, 115, 95,
         115, 115, 101, 95, 49, 50, 56>>,
       <<120, 99, 114, 48, 95, 115, 117, 112, 112, 111, 114, 116, 115, 95,
         97, 118, 120, 95, 50, 53, 54>>,
       <<104, 97, 115, 95, 120, 115, 97, 118, 101, 111, 112, 116>>,
       <<104, 97, 115, 95, 120, 115, 97, 118, 101, 99>> >>

\* xsave_area_size_enabled_features, xsave_area_size_supported_features, xsave_size
NSizes == 3

\* lines.len() in render_cpuid_pane
CpuidLines ==
    3 + 1 + 1 + Len(Features) + 1 + 1 + Len(ExtendedFeatures) + 1 + 1
      + Len(Supports) + 1 + NSizes

N_XMM == 16

\* text.len() in the Widget of FpuState
FpuLines(avx2) == 2 + N_XMM + (IF avx2 THEN 2 + N_XMM ELSE 0)

TERM_HEIGHT == 24

\* Layout [Fill(1), Length(1)] of the 24 rows, then the inside of a Block
\* with Borders::ALL
AreaHeight == (TERM_HEIGHT - 1) - 2

-----------------------------------------------------------------------------
(* Application: src/kernel/src/app.rs.  A UI state u is the record of the  *)
(* App fields mode, pane, scroll_hints, search_buffer, search_state.       *)

MIN_SEARCH_LEN == 2

SEARCH_BUFFER_MAX == 76

FIRST_FEATURE_LINE == 5

UiState == [mode |-> mode, pane |-> pane, scroll_hints |-> scroll_hints,
            search_buffer |-> search_buffer, search_state |-> search_state]

\* App::scroll: the possible outcomes of ScrollHints::scroll on the active pane
app_scroll(u, direction) ==
    IF u.pane = "Cpuid"
    THEN {[ui |-> [u EXCEPT !.scroll_hints.cpuid = o.hints], panic |-> o.panic] :
             o \in ScrollOutcomes(u.scroll_hints.cpuid, direction)}
    ELSE IF u.pane = "Fpu"
    THEN {[ui |-> [u EXCEPT !.scroll_hints.fpu = o.hints], panic |-> o.panic] :
             o \in ScrollOutcomes(u.scroll_hints.fpu, direction)}
    ELSE {[ui |-> u, panic |-> FALSE]}

\* a search index that leaves the section headers out of the count
cpuid_search_lines_no_headers(query, features, extended, supports) ==
    LET l1 == FIRST_FEATURE_LINE
        l2 == wrapping_add_u16(wrapping_add_u16(l1, as_u16(Len(features))), 1)
        l3 == wrapping_add_u16(wrapping_add_u16(l2, as_u16(Len(extended))), 1)
    IN find_matches(query, features, l1)
       \o find_matches(query, extended, l2)
       \o find_matches(query, supports, l3)

\* perform_cpuid_search: `line` starts at 5, advances by each list's length
\* and by 2 for the empty line and the header before the next list
cpuid_search_lines(query, features, extended, supports) ==
    LET l1 == FIRST_FEATURE_LINE
        l2 == wrapping_add_u16(wrapping_add_u16(l1, as_u16(Len(features))), 2)
        l3 == wrapping_add_u16(wrapping_add_u16(l2, as_u16(Len(extended))), 2)
    IN find_matches(query, features, l1)
       \o find_matches(query, extended, l2)
       \o find_matches(query, supports, l3)

\* the match lines perform_cpuid_search appends
cpuid_matches(query) ==
    cpuid_search_lines(query, Features, ExtendedFeatures, Supports)

\* the rows of a pane's line list: what kind of line each is
RowHeader == [kind |-> "header"]

RowBlank == [kind |-> "blank"]

RowPlain == [kind |-> "plain"]

RowLabel(name) == [kind |-> "label", name |-> name]

label_rows(names) == [i \in 1 .. Len(names) |-> RowLabel(names[i])]

\* render_cpuid_pane: the lines pushed, in order
cpuid_render_lines(features, extended, supports, n_sizes) ==
    <<RowHeader, RowPlain, RowPlain, RowBlank, RowHeader>>
    \o label_rows(features)
    \o <<RowBlank, RowHeader>> \o label_rows(extended)
    \o <<RowBlank, RowHeader>> \o label_rows(supports)
    \o <<RowBlank>> \o [i \in 1 .. n_sizes |-> RowPlain]

\* MsrPane::search_items from category i on, `line` the running offset
RECURSIVE msr_search_items_from(_, _, _)
msr_search_items_from(categories, i, line) ==
    IF i > Len(categories) THEN <<>>
    ELSE LET first == wrapping_add_u16(line, 1)
             n == Len(categories[i])
         IN [k \in 1 .. n |->
                [name |-> categories[i][k], line |-> (first + k - 1) % (U16_MAX + 1)]]
            \o msr_search_items_from(
                   categories, i + 1,
                   wrapping_add_u16((first + n) % (U16_MAX + 1), 1))

\* MsrPane::search_items
msr_search_items(categories) == msr_search_items_from(categories, 1, 0)

\* Widget for &mut MsrPane: the lines pushed from category i on
RECURSIVE msr_render_lines_from(_, _)
msr_render_lines_from(categories, i) ==
    IF i > Len(categories) THEN <<>>
    ELSE <<RowHeader>> \o label_rows(categories[i])
         \o (IF i < Len(categories) THEN <<RowBlank>> ELSE <<>>)
         \o msr_render_lines_from(categories, i + 1)

msr_render_lines(categories) == msr_render_lines_from(categories, 1)

\* the jump to the first match at the end of perform_cpuid_search
jump_to_first_match(h, first) == [h EXCEPT !.y_offset = first]

perform_cpuid_search(u, query) ==
    LET ms == u.search_state.matches \o cpuid_matches(query)
        u1 == [u EXCEPT !.search_state.matches = ms]
    IN IF ms # <<>>
       THEN [u1 EXCEPT !.scroll_hints.cpuid = jump_to_first_match(@, ms[1])]
       ELSE u1

perform_search(u) ==
    LET query == u.search_buffer IN
    IF Len(query) < MIN_SEARCH_LEN
    THEN [u EXCEPT !.search_state.matches = <<>>]
    ELSE IF query = u.search_state.last_query
    THEN u
    ELSE LET u1 == [u EXCEPT !.search_state =
                        [matches |-> <<>>, current_match |-> 0,
                         last_query |-> query]]
         IN IF u1.pane = "Cpuid" THEN perform_cpuid_search(u1, query) ELSE u1

\* a next_match / prev_match that forgets the query when there is no match
app_goto_match_forgets(u, r) ==
    IF ~r.some THEN [u EXCEPT !.search_state.last_query = <<>>]
    ELSE LET u1 == [u EXCEPT !.search_state = r.state] IN
         IF u1.pane = "Cpuid"
         THEN [u1 EXCEPT !.scroll_hints.cpuid = scroll_to(@, r.offset)]
         ELSE u1

\* App::next_match / App::prev_match, r the result of SearchState::next / prev:
\* `let Some(offset) = ... else { return }`, then scroll_to on the pane
app_goto_match(u, r) ==
    IF ~r.some THEN u
    ELSE LET u1 == [u EXCEPT !.search_state = r.state] IN
         IF u1.pane = "Cpuid"
         THEN [u1 EXCEPT !.scroll_hints.cpuid = scroll_to(@, r.offset)]
         ELSE u1

next_match(u) == app_goto_match(u, SearchState_next(u.search_state))

prev_match(u) == app_goto_match(u, SearchState_prev(u.search_state))

\* Vec::pop / String::pop
pop(s) == IF s = <<>> THEN s ELSE SubSeq(s, 1, Len(s) - 1)

\* App::run, `match event`: the outcomes [ui, panic] of one event that is
\* not Quit
apply_event(u, ev) ==
    LET one(v) == {[ui |-> v, panic |-> FALSE]} IN
    CASE ev.type = "ScrollToTop" -> app_scroll(u, "Top")
      [] ev.type = "ScrollToBottom" -> app_scroll(u, "Bottom")
      [] ev.type = "PageUp" -> app_scroll(u, "PageUp")
      [] ev.type = "PageDown" -> app_scroll(u, "PageDown")
      [] ev.type = "ScrollUp" -> app_scroll(u, "Up")
      [] ev.type = "ScrollDown" -> app_scroll(u, "Down")
      [] ev.type = "SelectPane" -> one([u EXCEPT !.pane = pane_after(ev, @)])
      [] ev.type = "EnterSearchMode" ->
            one([u EXCEPT !.mode = mode_after(ev, @),
                          !.search_buffer = <<>>,
                          !.search_state = SearchState_clear(@)])
      [] ev.type = "ConfirmSearch" -> one([u EXCEPT !.mode = mode_after(ev, @)])
      [] ev.type = "ExitSearchMode" -> one([u EXCEPT !.mode = mode_after(ev, @)])
      [] ev.type = "SearchInput" ->
            IF Len(u.search_buffer) < SEARCH_BUFFER_MAX
            THEN one(perform_search(
                        [u EXCEPT !.search_buffer = Append(@, ev.b)]))
            ELSE one(u)
      [] ev.type = "SearchBackspace" ->
            one(perform_search([u EXCEPT !.search_buffer = pop(@)]))
      [] ev.type = "NextMatch" -> one(next_match(u))
      [] ev.type = "PrevMatch" -> one(prev_match(u))
      [] OTHER -> one(u)

\* Widget for &mut App: the render of the active pane updates its ScrollHints
render(u, avx2) ==
    IF u.pane = "Cpuid"
    THEN [u EXCEPT !.scroll_hints.cpuid =
              update_from_render(@, CpuidLines, AreaHeight)]
    ELSE IF u.pane = "Fpu"
    THEN [u EXCEPT !.scroll_hints.fpu =
              update_from_render(@, FpuLines(avx2), AreaHeight)]
    ELSE u

\* the numbers of the " [{}/{}]" counter the bottom bar shows in
\* SearchResults mode
match_counter(u) ==
    [current |-> u.search_state.current_match + 1,
     match_count |-> Len(u.search_state.matches)]

\* App::tick applied n times
RECURSIVE app_ticks(_, _)
app_ticks(h, n) == IF n = 0 THEN h ELSE app_ticks((h + 5) % 360, n - 1)

-----------------------------------------------------------------------------
(* The receive queue: heapless::spsc::Queue<u8, N> holds at most N - 1      *)
(* elements; enqueue on a full queue returns the byte back and changes      *)
(* nothing.                                                                 *)

capacity == RX_QUEUE_N - 1

\* a full queue makes room by discarding its oldest byte
enqueue_overwrite(q, b) ==
    IF Len(q) < capacity
    THEN [queue |-> Append(q, b), ok |-> TRUE]
    ELSE [queue |-> Append(Tail(q), b), ok |-> TRUE]

enqueue(q, b) ==
    IF Len(q) < capacity
    THEN [queue |-> Append(q, b), ok |-> TRUE]
    ELSE [queue |-> q, ok |-> FALSE]

\* the consumer takes the newest byte
dequeue_newest(q) == [byte |-> q[Len(q)], queue |-> SubSeq(q, 1, Len(q) - 1)]

\* Consumer::dequeue on a queue that is not empty
dequeue(q) == [byte |-> Head(q), queue |-> Tail(q)]

\* com1_interrupt_handler's loop: while the UART has a byte, read it and
\* enqueue it, ignoring the result.  st = [queue, accepted, dropped].
RECURSIVE com1_drain(_, _)
com1_drain(st, fifo) ==
    IF fifo = <<>> THEN st
    ELSE LET r == enqueue(st.queue, Head(fifo)) IN
         com1_drain([queue |-> r.queue,
                     accepted |-> IF r.ok THEN Append(st.accepted, Head(fifo))
                                  ELSE st.accepted,
                     dropped |-> IF r.ok THEN st.dropped ELSE st.dropped + 1],
                    Tail(fifo))

\* RX_QUEUE.with(f) runs f with interrupts masked
irq_mutex_no_mask == FALSE

irq_mutex_masks == TRUE

\* hlt returns when an interrupt has been handled
no_wake(p) == p

wake(p) == IF p = "halted" THEN "snapshot" ELSE p

\* App::run with a loop that goes on to the next byte without halting
run_next_drain(p) ==
    CASE p = "hlt" -> "halted"
      [] p = "snapshot" -> "ticks_print"
      [] p = "ticks_print" -> "ticks_second"
      [] p = "ticks_second" -> "lock"
      [] p = "lock" -> "dequeue"
      [] p = "dequeue" -> "unlock"
      [] p = "unlock" -> "apply"
      [] p = "apply" -> "draw"
      [] p = "draw" -> "lock"
      [] OTHER -> p

\* App::run: the statement after statement p of the loop body: hlt, the tick
\* snapshot, handle_ticks (two swaps), handle_input (RX_QUEUE.with), the match
\* on the event, the redraw
run_next(p) ==
    CASE p = "hlt" -> "halted"
      [] p = "snapshot" -> "ticks_print"
      [] p = "ticks_print" -> "ticks_second"
      [] p = "ticks_second" -> "lock"
      [] p = "lock" -> "dequeue"
      [] p = "dequeue" -> "unlock"
      [] p = "unlock" -> "apply"
      [] p = "apply" -> "draw"
      [] p = "draw" -> "hlt"
      [] OTHER -> p

-----------------------------------------------------------------------------
(* The renderer: src/kernel/src/ratatui_backend.rs.  What the backend      *)
(* writes is a sequence of tokens, one per write to the sink; the terminal *)
(* is modelled by what it does with each token.  Cells carry the styles    *)
(* the application's widgets use: plain, bold, and black on yellow.        *)

Positions == (0 .. GridWidth - 1) \X (0 .. GridHeight - 1)

\* Style::default(): nothing set
StyleDefault == [fg |-> "None", bg |-> "None", bold |-> FALSE]

\* Cell::style(): the cell's colours and modifier, all set
cell_style(cell) == [fg |-> cell.fg, bg |-> cell.bg, bold |-> cell.bold]

\* Buffer::empty: every cell a space in the reset colours
CellEmpty == [symbol |-> " ", fg |-> "Reset", bg |-> "Reset", bold |-> FALSE]

CellVals ==
    {CellEmpty,
     [symbol |-> "a", fg |-> "Reset", bg |-> "Reset", bold |-> TRUE],
     [symbol |-> "b", fg |-> "Black", bg |-> "Yellow", bold |-> FALSE]}

BufferEmpty == [pos \in Positions |-> CellEmpty]

unwrap_or_reset(c) == IF c = "None" THEN "Reset" ELSE c

\* push_fg
push_fg(c) ==
    CASE c = "Reset" -> <<>>
      [] c = "Black" -> <<30>>
      [] c = "Yellow" -> <<33>>
      [] c = "Gray" -> <<37>>
      [] c = "DarkGray" -> <<90>>

\* push_bg
push_bg(c) ==
    CASE c = "Reset" -> <<>>
      [] c = "Black" -> <<40>>
      [] c = "Yellow" -> <<43>>
      [] c = "Gray" -> <<47>>
      [] c = "DarkGray" -> <<100>>

\* sgr_for_style: "\x1b[" params joined by ';' "m"
sgr_for_style(style) ==
    [t |-> "sgr",
     params |-> <<0>> \o (IF style.bold THEN <<1>> ELSE <<>>)
                \o push_fg(unwrap_or_reset(style.fg))
                \o push_bg(unwrap_or_reset(style.bg))]

ansi_hide_cursor == [t |-> "hide"]

ansi_show_cursor == [t |-> "show"]

ansi_reset == [t |-> "reset"]

ansi_clear_screen == [t |-> "clear"]

\* the row and column sent as they are, 0-based
ansi_goto_zero_based(x, y) == [t |-> "goto", row |-> y, col |-> x]

\* ansi_goto: "\x1b[{};{}H" with y + 1, x + 1
ansi_goto(x, y) == [t |-> "goto", row |-> y + 1, col |-> x + 1]

\* write_cell_symbol
write_cell_symbol(cell) ==
    [t |-> "sym", s |-> IF cell.symbol = "" THEN " " ELSE cell.symbol]

\* the writes for one cell and the last_style afterwards
paint_cell(cell, last_style) ==
    IF cell_style(cell) # last_style
    THEN [out |-> <<sgr_for_style(cell_style(cell)), write_cell_symbol(cell)>>,
          last_style |-> cell_style(cell)]
    ELSE [out |-> <<write_cell_symbol(cell)>>, last_style |-> last_style]

\* paint_full's loops from cell i on, rows first
RECURSIVE paint_full_from(_, _, _)
paint_full_from(next, i, last_style) ==
    IF i = GridWidth * GridHeight THEN <<>>
    ELSE LET x == i % GridWidth
             y == i \div GridWidth
             c == paint_cell(next[<<x, y>>], last_style)
         IN (IF x = 0 THEN <<ansi_goto(0, y)>> ELSE <<>>) \o c.out
            \o paint_full_from(next, i + 1, c.last_style)

\* a full repaint that does not clear the screen first
paint_full_no_clear(next) ==
    <<ansi_hide_cursor, ansi_reset>>
    \o paint_full_from(next, 0, StyleDefault)
    \o <<ansi_reset, ansi_show_cursor>>

\* paint_full: hide, clear, reset, the rows, reset, show
paint_full(next) ==
    <<ansi_hide_cursor, ansi_clear_screen, ansi_reset>>
    \o paint_full_from(next, 0, StyleDefault)
    \o <<ansi_reset, ansi_show_cursor>>

\* every cell counts as changed
cell_changed_always(new, old) == TRUE

\* paint_diff: "Consider style + symbol differences"
cell_changed(new, old) ==
    new.symbol # old.symbol \/ cell_style(new) # cell_style(old)

RECURSIVE paint_diff_from(_, _, _, _)
paint_diff_from(next, old, i, last_style) ==
    IF i = GridWidth * GridHeight THEN <<>>
    ELSE LET x == i % GridWidth
             y == i \div GridWidth
         IN IF cell_changed(next[<<x, y>>], old[<<x, y>>])
            THEN LET c == paint_cell(next[<<x, y>>], last_style) IN
                 <<ansi_goto(x, y)>> \o c.out
                 \o paint_diff_from(next, old, i + 1, c.last_style)
            ELSE paint_diff_from(next, old, i + 1, last_style)

\* a diff that writes the whole frame, row by row
paint_diff_repaints(next, old) ==
    <<ansi_hide_cursor, ansi_reset>>
    \o paint_full_from(next, 0, StyleDefault)
    \o <<ansi_reset, ansi_show_cursor>>

\* paint_diff: hide, reset, the changed cells, reset, show
paint_diff(next, old) ==
    <<ansi_hide_cursor, ansi_reset>>
    \o paint_diff_from(next, old, 0, StyleDefault)
    \o <<ansi_reset, ansi_show_cursor>>

\* the terminal's rendition after "\x1b[0m"
TermPlain == [fg |-> "Reset", bg |-> "Reset", bold |-> FALSE]

\* the terminal's reading of one SGR parameter
term_sgr_param(style, param) ==
    CASE param = 0 -> TermPlain
      [] param = 1 -> [style EXCEPT !.bold = TRUE]
      [] param = 30 -> [style EXCEPT !.fg = "Black"]
      [] param = 33 -> [style EXCEPT !.fg = "Yellow"]
      [] param = 37 -> [style EXCEPT !.fg = "Gray"]
      [] param = 90 -> [style EXCEPT !.fg = "DarkGray"]
      [] param = 40 -> [style EXCEPT !.bg = "Black"]
      [] param = 43 -> [style EXCEPT !.bg = "Yellow"]
      [] param = 47 -> [style EXCEPT !.bg = "Gray"]
      [] param = 100 -> [style EXCEPT !.bg = "DarkGray"]
      [] OTHER -> style

RECURSIVE term_sgr(_, _)
term_sgr(style, params) ==
    IF params = <<>> THEN style
    ELSE term_sgr(term_sgr_param(style, Head(params)), Tail(params))

\* a cursor-position parameter of 0 is read as 1
term_param(n) == IF n = 0 THEN 1 ELSE n

\* the terminal's reading of one token: cursor positions arrive 1-based, a
\* symbol is shown at the cursor in the current rendition and moves the cursor
term_token(tm, tok) ==
    CASE tok.t = "hide" -> [tm EXCEPT !.cursor_visible = FALSE]
      [] tok.t = "show" -> [tm EXCEPT !.cursor_visible = TRUE]
      [] tok.t = "reset" -> [tm EXCEPT !.style = TermPlain]
      [] tok.t = "clear" -> [tm EXCEPT !.grid = BufferEmpty, !.cursor = <<0, 0>>]
      [] tok.t = "goto" -> [tm EXCEPT !.cursor = <<term_param(tok.col) - 1,
                                                   term_param(tok.row) - 1>>]
      [] tok.t = "sgr" -> [tm EXCEPT !.style = term_sgr(@, tok.params)]
      [] tok.t = "sym" ->
            LET at == IF tm.cursor[1] >= GridWidth
                      THEN <<0, tm.cursor[2] + 1>> ELSE tm.cursor
                shown == [symbol |-> tok.s, fg |-> tm.style.fg,
                          bg |-> tm.style.bg, bold |-> tm.style.bold]
            IN [tm EXCEPT !.grid = IF at \in Positions
                                   THEN [@ EXCEPT ![at] = shown] ELSE @,
                          !.cursor = <<at[1] + 1, at[2]>>]

RECURSIVE term_apply(_, _)
term_apply(tm, toks) ==
    IF toks = <<>> THEN tm
    ELSE term_apply(term_token(tm, Head(toks)), Tail(toks))

\* a terminal that has shown nothing yet
TermInit ==
    [grid |-> BufferEmpty, cursor |-> <<0, 0>>, style |-> TermPlain,
     cursor_visible |-> TRUE, sink_failed |-> FALSE]

\* SerialAnsiBackend::new
BackendNew ==
    [prev |-> BufferEmpty, force_full_repaint |-> TRUE, cursor_pos |-> <<0, 0>>]

\* Backend::draw, "Apply incoming cell updates into a next buffer"
draw_next(b, content) ==
    [pos \in Positions |->
        IF pos \in DOMAIN content THEN content[pos] ELSE b.prev[pos]]

\* Backend::draw: the tokens it tries to write
draw_tokens(b, next) ==
    IF b.force_full_repaint THEN paint_full(next) ELSE paint_diff(next, b.prev)

\* Backend::draw: the backend afterwards, whatever the paint returned
Backend_draw(b, next) ==
    [b EXCEPT !.prev = next, !.force_full_repaint = FALSE]

\* Backend::clear: the tokens it writes
clear_tokens == <<ansi_hide_cursor, ansi_clear_screen, ansi_reset>>

\* Backend::clear: the backend afterwards
Backend_clear(b) ==
    [prev |-> BufferEmpty, force_full_repaint |-> FALSE, cursor_pos |-> <<0, 0>>]

\* clear_region that leaves the flag alone
Backend_clear_region_noop(b) == b

\* Backend::clear_region
Backend_clear_region(b) == [b EXCEPT !.force_full_repaint = TRUE]

-----------------------------------------------------------------------------
(* Timer calibration: src/kernel/src/lapic.rs                              *)

OptNone == [some |-> FALSE]

OptSome(v) == [some |-> TRUE, v |-> v]

FALLBACK_TIMER_INITIAL == 1000000

PIT_FREQUENCY == 1193182

\* the local APIC and LAPIC_TIMER_FREQ_HZ before Lapic::enable
LapicReset ==
    [in_service |-> "none", eoi |-> 0, completed |-> 0, freq |-> OptNone,
     timer_initial |-> 0, timer_mode |-> "Off", timer_enabled |-> FALSE]

\* calibrate_with_tsc that keeps the measured frequency to itself
calibrate_with_tsc_no_store(l, hw) ==
    IF ~hw.tsc.some
    THEN [ret |-> OptNone, lapic |-> l, fault |-> "none"]
    ELSE LET tsc_freq == hw.tsc.v
             calibration_tsc_ticks == tsc_freq \div 100
             m == [l EXCEPT !.timer_mode = "OneShot", !.timer_enabled = FALSE]
         IN IF calibration_tsc_ticks = 0
            THEN [ret |-> OptNone, lapic |-> m, fault |-> "panic"]
            ELSE LET lapic_freq ==
                         (hw.elapsed * tsc_freq) \div calibration_tsc_ticks
                 IN [ret |-> OptSome(lapic_freq \div TARGET_TIMER_HZ),
                     lapic |-> m, fault |-> "none"]

\* Lapic::calibrate_with_tsc on a machine hw = [tsc, elapsed, pit_fires]: tsc
\* is cpuid::tsc_frequency(), elapsed the LAPIC ticks counted in the
\* measurement.  A TSC frequency below 100 makes the divisor 0: the division
\* panics.
\* The elapsed counts given here are small, so that `as u32` leaves the
\* quotient as it is; tsc_calibrated has the arithmetic at its full width.
calibrate_with_tsc(l, hw) ==
    IF ~hw.tsc.some
    THEN [ret |-> OptNone, lapic |-> l, fault |-> "none"]
    ELSE LET tsc_freq == hw.tsc.v
             calibration_tsc_ticks == tsc_freq \div 100
             m == [l EXCEPT !.timer_mode = "OneShot", !.timer_enabled = FALSE]
         IN IF calibration_tsc_ticks = 0
            THEN [ret |-> OptNone, lapic |-> m, fault |-> "panic"]
            ELSE LET lapic_freq ==
                         (hw.elapsed * tsc_freq) \div calibration_tsc_ticks
                 IN [ret |-> OptSome(lapic_freq \div TARGET_TIMER_HZ),
                     lapic |-> [m EXCEPT !.freq = OptSome(lapic_freq)],
                     fault |-> "none"]

\* Lapic::calibrate_with_pit: it waits for the PIT output to go high and has
\* no return of None
calibrate_with_pit(l, hw) ==
    LET pit_ticks == (PIT_FREQUENCY \div 100) % (U16_MAX + 1)
        m == [l EXCEPT !.timer_mode = "OneShot", !.timer_enabled = FALSE]
    IN IF ~hw.pit_fires
       THEN [ret |-> OptNone, lapic |-> m, fault |-> "hang"]
       ELSE LET lapic_freq == (hw.elapsed * PIT_FREQUENCY) \div pit_ticks
            IN [ret |-> OptSome(lapic_freq \div TARGET_TIMER_HZ),
                lapic |-> [m EXCEPT !.freq = OptSome(lapic_freq)],
                fault |-> "none"]

\* Lapic::enable: calibrate_with_tsc().or_else(calibrate_with_pit)
\* .unwrap_or(FALLBACK_TIMER_INITIAL), then the periodic timer is programmed
Lapic_enable(l, hw) ==
    LET a == calibrate_with_tsc(l, hw)
        tried_pit == ~a.ret.some /\ a.fault = "none"
        b == IF tried_pit THEN calibrate_with_pit(a.lapic, hw) ELSE a
        initial_count == IF b.ret.some THEN b.ret.v ELSE FALLBACK_TIMER_INITIAL
    IN [fault |-> b.fault,
        tsc_ret |-> a.ret,
        tried_pit |-> tried_pit,
        pit_ret |-> IF tried_pit THEN b.ret ELSE OptNone,
        initial_count |-> initial_count,
        lapic |-> IF b.fault # "none" THEN b.lapic
                  ELSE [b.lapic EXCEPT !.timer_mode = "Periodic",
                                       !.timer_initial = initial_count,
                                       !.timer_enabled = TRUE]]


\* The arithmetic of the two calibrations at its full width.  A u64 is its 8
\* bytes and a u32 its 4 bytes, least significant first (to_le_bytes), since
\* the values pass 2^31.

\* `x as u64` of a u32
u32_as_u64(x) == x \o <<0, 0, 0, 0>>

\* `x as u32` of a u64: the low 4 bytes
as_u32(x) == SubSeq(x, 1, 4)

\* x * m from byte i on, m below 2^23: the bytes and the carry out of the last
RECURSIVE u64_mul_from(_, _, _, _)
u64_mul_from(x, m, i, carry) ==
    IF i > Len(x) THEN [bytes |-> <<>>, carry |-> carry]
    ELSE LET p == x[i] * m + carry
             r == u64_mul_from(x, m, i + 1, p \div 256)
         IN [bytes |-> <<p % 256>> \o r.bytes, carry |-> r.carry]

\* x * m on u64
u64_mul(x, m) == u64_mul_from(x, m, 1, 0)

\* x / d from byte i down, d below 2^23, with the remainder of the bytes above
RECURSIVE u64_div_from(_, _, _, _)
u64_div_from(x, d, i, rem) ==
    IF i = 0 THEN <<>>
    ELSE LET cur == rem * 256 + x[i]
         IN u64_div_from(x, d, i - 1, cur % d) \o <<cur \div d>>

\* x / d on u64
u64_div(x, d) == u64_div_from(x, d, Len(x), 0)

\* both calibrations, from `elapsed_lapic_ticks` on: the frequency stored in
\* LAPIC_TIMER_FREQ_HZ and the initial count returned, for a reference clock
\* of ref_freq Hz that was watched for ref_ticks ticks
calibrated(elapsed_lapic_ticks, ref_freq, ref_ticks) ==
    LET product == u64_mul(u32_as_u64(elapsed_lapic_ticks), ref_freq)
        lapic_freq == u64_div(product.bytes, ref_ticks)
    IN [overflow |-> product.carry # 0,
        lapic_freq |-> lapic_freq,
        initial_count |-> as_u32(u64_div(lapic_freq, TARGET_TIMER_HZ))]

\* calibrate_with_tsc: `calibration_tsc_ticks = tsc_freq / 100`
tsc_calibrated(elapsed_lapic_ticks, tsc_freq) ==
    calibrated(elapsed_lapic_ticks, tsc_freq, tsc_freq \div 100)

\* calibrate_with_pit: `pit_ticks: u16 = (PIT_FREQUENCY / 100) as u16`
pit_calibrated(elapsed_lapic_ticks) ==
    calibrated(elapsed_lapic_ticks, PIT_FREQUENCY,
               (PIT_FREQUENCY \div 100) % (U16_MAX + 1))

\* `let start_count: u32 = 0xFFFF_FFFF`, as its 4 bytes
START_COUNT == <<255, 255, 255, 255>>

\* one call on the LocalApic, or one other statement of a calibration
Op(name) == [op |-> name]

\* the statements the two calibrations begin with
measurement_setup ==
    <<Op("enable"), Op("set_timer_divide"),
      [op |-> "set_timer_mode", mode |-> "OneShot"], Op("disable_timer")>>

\* a measurement that reads the count while the timer runs
measurement_end_reads_first ==
    <<Op("timer_current"), Op("disable_timer"), Op("store_freq")>>

\* the statements the two calibrations end with, after the busy-wait
measurement_end ==
    <<Op("disable_timer"), Op("timer_current"), Op("store_freq")>>

\* calibrate_with_tsc after `tsc_frequency()?`, statement by statement
calibrate_with_tsc_steps ==
    measurement_setup
    \o <<[op |-> "set_timer_initial", count |-> "start_count", v |-> START_COUNT],
         Op("calibration_tsc_ticks"), Op("rdtsc"), Op("enable_timer"),
         [op |-> "wait", on |-> "tsc"]>>
    \o measurement_end

\* calibrate_with_pit, statement by statement
calibrate_with_pit_steps ==
    measurement_setup
    \o <<Op("pit_program"), [op |-> "set_timer_initial", count |-> "start_count", v |-> START_COUNT],
         Op("pit_gate"), Op("enable_timer"), [op |-> "wait", on |-> "pit"]>>
    \o measurement_end

\* Lapic::enable after the calibration, statement by statement
enable_steps(initial_count) ==
    <<Op("enable"), Op("set_timer_divide"),
      [op |-> "set_timer_mode", mode |-> "Periodic"],
      [op |-> "set_timer_initial", count |-> "initial_count",
       v |-> initial_count],
      Op("enable_timer")>>

\* the statements Lapic::enable executes on machine hw
enable_program(hw) ==
    (IF hw.tsc.some THEN calibrate_with_tsc_steps ELSE calibrate_with_pit_steps)
    \o enable_steps(Lapic_enable(LapicReset, hw).initial_count)

\* what one statement does to the local APIC; store_freq is
\* `LAPIC_TIMER_FREQ_HZ = Some(lapic_freq)`
lapic_step(l, s, hw) ==
    CASE s.op = "set_timer_mode" -> [l EXCEPT !.timer_mode = s.mode]
      [] s.op = "disable_timer" -> [l EXCEPT !.timer_enabled = FALSE]
      [] s.op = "enable_timer" -> [l EXCEPT !.timer_enabled = TRUE]
      [] s.op = "set_timer_initial" -> [l EXCEPT !.timer_initial = s.v]
      [] s.op = "store_freq" ->
            [l EXCEPT !.freq = Lapic_enable(LapicReset, hw).lapic.freq]
      [] OTHER -> l

\* how a statement ends: the division by tsc_freq / 100 = 0 panics, the wait
\* for a PIT output that never rises does not end
step_fault(s, hw) ==
    CASE s.op = "calibration_tsc_ticks" /\ hw.tsc.v < 100 -> "panic"
      [] s.op = "wait" /\ s.on = "pit" /\ ~hw.pit_fires -> "hang"
      [] OTHER -> "none"

\* lapic_timer_freq_hz
lapic_timer_freq_hz(l) == l.freq

\* App::render_timer_pane: the "LAPIC Timer Freq:" line
lapic_freq_str(l) ==
    IF lapic_timer_freq_hz(l).some
    THEN [text |-> "Hz", freq |-> lapic_timer_freq_hz(l).v]
    ELSE [text |-> "Not calibrated"]

\* the local APIC after interrupts::init on a machine that reports a TSC
\* frequency: no interrupt handler in progress, nothing acknowledged yet
IrqIdle ==
    Lapic_enable(LapicReset,
                 [tsc |-> OptSome(1000), elapsed |-> 10, pit_fires |-> TRUE]).lapic

-----------------------------------------------------------------------------
(* State after construction: App::new, Input::new, the statics.            *)

NoOp == [op |-> "none"]

HwInit ==
    /\ tick = 0
    /\ second_events = 0
    /\ print_events = 0
    /\ uart_rx = <<>>
    /\ queue = <<>>
    /\ irq_enabled = TRUE
    /\ lock = "none"
    /\ isr_spinning = FALSE

UiInit ==
    /\ app_tick_count = 0
    /\ hue = 0
    /\ mode = "Navigation"
    /\ pane = "Cpuid"
    /\ scroll_hints = [cpuid |-> ScrollHintsDefault, fpu |-> ScrollHintsDefault]
    /\ search_buffer = <<>>
    /\ search_state = SearchStateDefault
    /\ has_avx2 = TRUE
    /\ backend = BackendNew
    /\ term = TermInit
    /\ irq = IrqIdle

InputNew == [in_sequence |-> "None", in_sequence_since |-> 0]

HistInit ==
    /\ boot_tick = 0
    /\ accepted = <<>>
    /\ delivered = <<>>
    /\ dropped = 0
    /\ second_returned = 0
    /\ print_returned = 0
    /\ last = NoOp
    /\ prev = NoOp

-----------------------------------------------------------------------------
(* SpecScroll: one ScrollHints under arbitrary sequences of scroll().      *)

ScrollVals == (0 .. MaxSmall) \cup ((U16_MAX - MaxSmall) .. U16_MAX)

InitScroll ==
    /\ HwInit
    /\ boot_tick = 0
    /\ accepted = <<>>
    /\ delivered = <<>>
    /\ dropped = 0
    /\ second_returned = 0
    /\ print_returned = 0
    /\ last = [op |-> "none", dir |-> "none", before |-> 0, n |-> 0]
    /\ prev = NoOp
    /\ pc = "scroll"
    /\ needs_redraw = FALSE
    /\ event = NoEvent
    /\ input = InputNew
    /\ app_tick_count = 0
    /\ hue = 0
    /\ mode = "Navigation"
    /\ pane = "Cpuid"
    /\ search_buffer = <<>>
    /\ search_state = SearchStateDefault
    /\ has_avx2 = TRUE
    /\ backend = BackendNew
    /\ term = TermInit
    /\ irq = IrqIdle
    /\ \E y \in ScrollVals, m \in ScrollVals, p \in ScrollVals :
          /\ y <= m
          /\ scroll_hints =
                [cpuid |-> [max_offset |-> m, y_offset |-> y, page_height |-> p],
                 fpu |-> ScrollHintsDefault]

ScrollStep(direction) ==
    /\ pc = "scroll"
    /\ last.n < MaxOps
    /\ \E o \in ScrollOutcomes(scroll_hints.cpuid, direction) :
          /\ scroll_hints' = [scroll_hints EXCEPT !.cpuid = o.hints]
          /\ pc' = IF o.panic THEN "panicked" ELSE "scroll"
    /\ last' = [op |-> "scroll", dir |-> direction,
                before |-> scroll_hints.cpuid.y_offset, n |-> last.n + 1]
    /\ UNCHANGED <<hw_vars, needs_redraw, event, app_tick_count, hue, mode,
                   pane, search_buffer, search_state, input, has_avx2, backend, term, irq,
                   hist_vars, prev>>

NextScroll == \E direction \in ScrollDirection : ScrollStep(direction)

SpecScroll == InitScroll /\ [][NextScroll]_vars

\* C2: after every scroll(direction), from any ScrollHints with
\* y_offset <= max_offset and fixed max_offset and page_height,
\* 0 <= y_offset <= max_offset; Up at 0 stays 0, Down at max_offset stays there.
C2_ScrollKeepsBound ==
    LET h == scroll_hints.cpuid IN
    /\ 0 <= h.y_offset
    /\ h.y_offset <= h.max_offset
    /\ (last.op = "scroll" /\ pc # "panicked" /\ last.dir = "Up" /\ last.before = 0)
          => h.y_offset = 0
    /\ (last.op = "scroll" /\ pc # "panicked" /\ last.dir = "Down"
          /\ last.before = h.max_offset)
          => h.y_offset = h.max_offset

\* Down was applied at y_offset = max_offset, below the top of u16
C2_Witness ==
    /\ last.op = "scroll"
    /\ last.dir = "Down"
    /\ last.before = scroll_hints.cpuid.max_offset
    /\ scroll_hints.cpuid.max_offset = MaxSmall

-----------------------------------------------------------------------------
(* SpecInput: the input state machine driven by bytes and timer ticks,     *)
(* with the mode and pane assignments App::run makes on the returned       *)
(* event.  Between two handled bytes the timer fires in bursts of about    *)
(* half the chord window, so that gaps of exactly SEQUENCE_TIMEOUT_TICKS   *)
(* and one more both occur.                                                *)

InputBursts == {SEQUENCE_TIMEOUT_TICKS \div 2, SEQUENCE_TIMEOUT_TICKS \div 2 + 1}

\* B_SPACE stands for the bytes Navigation mode does not recognise
InputBytes == {B_g, B_j, B_q, B_c, B_f, B_SLASH, B_ESC, B_ENTER, B_SPACE}

InitInput ==
    /\ HwInit
    /\ UiInit
    /\ HistInit
    /\ pc = "input"
    /\ needs_redraw = FALSE
    /\ event = NoEvent
    /\ input = InputNew

InputTimerBurst(k) ==
    /\ pc = "input"
    /\ tick + k <= MaxInputTick
    /\ LET st == timer_interrupts(Statics, k) IN
          /\ tick' = st.tick
          /\ second_events' = st.second_events
          /\ print_events' = st.print_events
    /\ UNCHANGED <<uart_rx, queue, irq_enabled, lock,
                   isr_spinning, pc, needs_redraw, event, ui_vars, input,
                   hist_vars, last, prev>>

InputPress(byte) ==
    /\ pc = "input"
    /\ LET r == handle_byte(mode, pane, input, byte, tick) IN
          /\ input' = r.input
          /\ event' = r.event
          /\ mode' = mode_after(r.event, mode)
          /\ pane' = pane_after(r.event, pane)
          /\ pc' = IF r.event.type = "Quit" THEN "exited" ELSE "input"
          /\ last' = [op |-> "press", byte |-> byte, mode |-> mode,
                      seq_before |-> input.in_sequence,
                      since_before |-> input.in_sequence_since,
                      now |-> tick, event |-> r.event.type]
    /\ prev' = last
    /\ UNCHANGED <<hw_vars, needs_redraw, app_tick_count, hue, scroll_hints,
                   search_buffer, search_state, has_avx2, backend, term, irq, hist_vars>>

NextInput ==
    \/ \E k \in InputBursts : InputTimerBurst(k)
    \/ \E byte \in InputBytes : InputPress(byte)

SpecInput == InitInput /\ [][NextInput]_vars

\* r is a handled 'g' in Navigation mode
IsNavG(r) == r.op = "press" /\ r.byte = B_g /\ r.mode = "Navigation"

\* r is a handled 'g' in Navigation mode that found a chord pending for more
\* than the timeout
IsLateG(r) ==
    /\ IsNavG(r)
    /\ r.seq_before = "gg"
    /\ r.now - r.since_before > SEQUENCE_TIMEOUT_TICKS

\* C8: in Navigation mode, 'g' with no chord pending followed directly by 'g'
\* at most SEQUENCE_TIMEOUT_TICKS later: the first emits nothing and records
\* the pending chord, the second emits ScrollToTop and clears it.
C8_ChordWithinTimeout ==
    (/\ IsNavG(prev)
     /\ prev.seq_before = "None"
     /\ IsNavG(last)
     /\ last.now - prev.now <= SEQUENCE_TIMEOUT_TICKS)
    => /\ prev.event = "None"
       /\ last.seq_before = "gg"
       /\ last.since_before = prev.now
       /\ last.event = "ScrollToTop"
       /\ input.in_sequence = "None"

\* the second 'g' came exactly SEQUENCE_TIMEOUT_TICKS after the first
C8_Witness ==
    /\ IsNavG(prev)
    /\ prev.seq_before = "None"
    /\ IsNavG(last)
    /\ last.now - prev.now = SEQUENCE_TIMEOUT_TICKS
    /\ last.event = "ScrollToTop"

\* C9: a 'g' that finds a chord pending for more than the timeout emits
\* nothing and restarts the chord at the current tick; a 'g' handled next,
\* within the timeout of that press, emits ScrollToTop.
C9_ChordRestartsAfterTimeout ==
    /\ IsLateG(last) =>
          /\ last.event = "None"
          /\ input.in_sequence = "gg"
          /\ input.in_sequence_since = last.now
    /\ (IsLateG(prev) /\ IsNavG(last)
          /\ last.now - prev.now <= SEQUENCE_TIMEOUT_TICKS)
          => last.event = "ScrollToTop"

\* a late 'g' restarted the chord and the next 'g' completed it
C9_Witness ==
    /\ IsLateG(prev)
    /\ IsNavG(last)
    /\ last.now - prev.now <= SEQUENCE_TIMEOUT_TICKS
    /\ last.now > prev.now
    /\ last.event = "ScrollToTop"

\* C10: every byte other than 'g' handled while a chord is pending clears the
\* pending chord, in every mode and whatever event the byte produces.
C10_OtherByteClearsChord ==
    (last.op = "press" /\ last.byte # B_g /\ last.seq_before = "gg")
    => input.in_sequence = "None"

\* the mode the transitions of C11 give for byte b handled in mode m on pane p
C11_ModeAfter(m, p, b) ==
    IF m = "Navigation"
    THEN IF b = B_SLASH /\ p = "Cpuid" THEN "Search" ELSE m
    ELSE IF m = "Search"
    THEN IF b = B_ESC THEN "Navigation"
         ELSE IF b = B_ENTER THEN "SearchResults" ELSE m
    ELSE IF b = B_ESC \/ b = B_ENTER THEN "Navigation"
         ELSE IF b = B_SLASH THEN "Search" ELSE m

\* C11: the mode changes only when a byte is handled, and then exactly along
\* Navigation -> Search on '/' on a pane that supports search, Search ->
\* Navigation on Escape, Search -> SearchResults on Enter, SearchResults ->
\* Navigation on Escape or Enter, SearchResults -> Search on '/'; every other
\* byte leaves the mode as it is.
C11_ModeTransitions ==
    [][/\ mode' # mode => (tick' = tick /\ last'.op = "press")
       /\ (tick' = tick /\ last'.op = "press" /\ last'.mode = mode)
             => mode' = C11_ModeAfter(mode, pane, last'.byte)]_vars

\* '/' was handled in SearchResults mode and the mode is Search again
C11_Witness ==
    /\ last.op = "press"
    /\ last.byte = B_SLASH
    /\ last.mode = "SearchResults"
    /\ mode = "Search"

-----------------------------------------------------------------------------
(* Spec: App::run interleaved with the timer and COM1 interrupt handlers.  *)
(* The main loop advances one statement at a time; a handler runs to       *)
(* completion between two statements (x86-interrupt handlers run with      *)
(* interrupts disabled), and only while the main loop has interrupts       *)
(* enabled.                                                                *)

\* interrupts::init enables the timer before App::run starts, so the loop may
\* start with ticks counted and events accumulated
BootTicks == {TICKS_PER_SECOND - 1, 2 * TICKS_PER_SECOND - 1}

\* bytes the terminal sends
AppBytes == {B_SLASH, B_s, B_q, B_CTRL_B}

timer_vars == <<tick, second_events, print_events>>

rx_vars == <<uart_rx, queue>>

cs_vars == <<irq_enabled, lock, isr_spinning>>

view_vars == <<mode, pane, scroll_hints, search_buffer, search_state>>

rx_hist == <<accepted, delivered, dropped>>

read_hist == <<second_returned, print_returned, last, prev>>

Running == pc \notin {"exited", "panicked"} /\ ~isr_spinning

\* the main loop is executing between its dequeue and the next hlt
BusyAfterDequeue == {"apply", "draw", "hlt"}

Init ==
    /\ \E b \in BootTicks :
          /\ boot_tick = b
          /\ tick = b
          /\ second_events = b \div TICKS_PER_SECOND
          /\ print_events = b \div TICKS_PER_EVENT
    /\ uart_rx = <<>>
    /\ queue = <<>>
    /\ irq_enabled = TRUE
    /\ lock = "none"
    /\ isr_spinning = FALSE
    /\ UiInit
    /\ pc = "init_draw"
    /\ needs_redraw = FALSE
    /\ event = NoEvent
    /\ input = InputNew
    /\ accepted = <<>>
    /\ delivered = <<>>
    /\ dropped = 0
    /\ second_returned = 0
    /\ print_returned = 0
    /\ last = NoOp
    /\ prev = [second_tick |-> 0, print_tick |-> 0, deferred |-> 0]

\* the terminal sends a byte: it waits in the UART and raises the COM1 interrupt
UartReceive(b) ==
    /\ Running
    /\ Len(accepted) + dropped + Len(uart_rx) < MaxBytes
    /\ uart_rx' = Append(uart_rx, b)
    /\ UNCHANGED <<timer_vars, queue, cs_vars, pc, needs_redraw, event,
                   app_tick_count, hue, view_vars, input, has_avx2, backend, term, irq, boot_tick,
                   rx_hist, read_hist>>

TimerInterrupt ==
    /\ Running
    /\ irq_enabled
    /\ tick - boot_tick < MaxTicks
    /\ LET st == timer_interrupt_handler(Statics) IN
          /\ tick' = st.tick
          /\ second_events' = st.second_events
          /\ print_events' = st.print_events
    /\ pc' = wake(pc)
    /\ UNCHANGED <<rx_vars, cs_vars, needs_redraw, event, app_tick_count, hue,
                   view_vars, input, has_avx2, backend, term, irq, boot_tick, rx_hist, read_hist>>

\* a timer interrupt past the MaxTicks the model counts: it still ends a hlt
TimerWake ==
    /\ Running
    /\ irq_enabled
    /\ tick - boot_tick >= MaxTicks
    /\ pc = "halted"
    /\ pc' = wake(pc)
    /\ UNCHANGED <<timer_vars, rx_vars, cs_vars, needs_redraw, event,
                   app_tick_count, hue, view_vars, input, has_avx2, backend, term, irq, boot_tick,
                   rx_hist, read_hist>>

Com1Interrupt ==
    /\ Running
    /\ irq_enabled
    /\ uart_rx # <<>>
    /\ IF lock # "none"
       THEN /\ isr_spinning' = TRUE
            /\ UNCHANGED <<rx_vars, rx_hist, pc, prev>>
       ELSE LET r == com1_drain([queue |-> queue, accepted |-> accepted,
                                 dropped |-> dropped], uart_rx) IN
            /\ queue' = r.queue
            /\ accepted' = r.accepted
            /\ dropped' = r.dropped
            /\ uart_rx' = <<>>
            /\ pc' = wake(pc)
            /\ prev' = IF pc \in BusyAfterDequeue /\ Len(r.accepted) > Len(accepted)
                       THEN [prev EXCEPT !.deferred = Len(r.accepted)]
                       ELSE prev
            /\ UNCHANGED <<isr_spinning, delivered>>
    /\ UNCHANGED <<timer_vars, irq_enabled, lock, needs_redraw, event,
                   app_tick_count, hue, view_vars, input, has_avx2, backend, term, irq, boot_tick,
                   second_returned, print_returned, last>>

\* the fields of App a handler or a draw assigns
SetUi(u) ==
    /\ mode' = u.mode
    /\ pane' = u.pane
    /\ scroll_hints' = u.scroll_hints
    /\ search_buffer' = u.search_buffer
    /\ search_state' = u.search_state

\* App::run: the initial draw and Input::new
InitialDraw ==
    /\ Running
    /\ pc = "init_draw"
    /\ SetUi(render(UiState, has_avx2))
    /\ input' = InputNew
    /\ pc' = "hlt"
    /\ UNCHANGED <<timer_vars, rx_vars, cs_vars, needs_redraw, event,
                   app_tick_count, hue, has_avx2, backend, term, irq, boot_tick, rx_hist, read_hist>>

\* instructions::hlt(): the processor stops until an interrupt has been handled
Halt ==
    /\ Running
    /\ pc = "hlt"
    /\ pc' = run_next(pc)
    /\ UNCHANGED <<timer_vars, rx_vars, cs_vars, needs_redraw, event,
                   app_tick_count, hue, view_vars, input, has_avx2, backend, term, irq, boot_tick,
                   rx_hist, read_hist>>

\* self.tick_count = interrupts::tick_count()
Snapshot ==
    /\ Running
    /\ pc = "snapshot"
    /\ app_tick_count' = tick_count(Statics)
    /\ pc' = run_next(pc)
    /\ UNCHANGED <<timer_vars, rx_vars, cs_vars, needs_redraw, event, hue,
                   view_vars, input, has_avx2, backend, term, irq, boot_tick, rx_hist, read_hist>>

\* handle_ticks: PRINT_EVENTS.swap(0) and one App::tick per event
HandleTicksPrint ==
    /\ Running
    /\ pc = "ticks_print"
    /\ print_events' = atomic_swap(print_events, 0).new
    /\ hue' = app_ticks(hue, print_events)
    /\ needs_redraw' = (print_events > 0)
    /\ print_returned' = print_returned + print_events
    /\ last' = [op |-> "read", counter |-> "print", returned |-> print_events,
                tick |-> tick, since |-> prev.print_tick]
    /\ prev' = [prev EXCEPT !.print_tick = tick]
    /\ pc' = run_next(pc)
    /\ UNCHANGED <<tick, second_events, rx_vars, cs_vars, event,
                   app_tick_count, view_vars, input, has_avx2, backend, term, irq, boot_tick,
                   rx_hist, second_returned>>

\* handle_ticks: SECOND_EVENTS.swap(0) and the returned flag
HandleTicksSecond ==
    /\ Running
    /\ pc = "ticks_second"
    /\ second_events' = atomic_swap(second_events, 0).new
    /\ needs_redraw' = handle_ticks(needs_redraw, second_events)
    /\ second_returned' = second_returned + second_events
    /\ last' = [op |-> "read", counter |-> "second", returned |-> second_events,
                tick |-> tick, since |-> prev.second_tick,
                color_events |-> last.returned]
    /\ prev' = [prev EXCEPT !.second_tick = tick]
    /\ pc' = run_next(pc)
    /\ UNCHANGED <<tick, print_events, rx_vars, cs_vars, event, app_tick_count,
                   hue, view_vars, input, has_avx2, backend, term, irq, boot_tick, rx_hist,
                   print_returned>>

\* handle_input: RX_QUEUE.with enters the critical section
InputLock ==
    /\ Running
    /\ pc = "lock"
    /\ irq_enabled' = (irq_enabled /\ ~irq_mutex_masks)
    /\ lock' = "main"
    /\ pc' = run_next(pc)
    /\ UNCHANGED <<timer_vars, rx_vars, isr_spinning, needs_redraw, event,
                   app_tick_count, hue, view_vars, input, has_avx2, backend, term, irq, boot_tick,
                   rx_hist, read_hist>>

\* handle_input: dequeue at most one byte and pass it to Input::handle_byte
InputDequeue ==
    /\ Running
    /\ pc = "dequeue"
    /\ IF queue = <<>>
       THEN /\ event' = NoEvent
            /\ UNCHANGED <<queue, input, delivered>>
       ELSE LET d == dequeue(queue)
                r == handle_byte(mode, pane, input, d.byte, app_tick_count)
            IN /\ queue' = d.queue
               /\ delivered' = Append(delivered, d.byte)
               /\ event' = r.event
               /\ input' = r.input
    /\ pc' = run_next(pc)
    /\ UNCHANGED <<timer_vars, uart_rx, cs_vars, needs_redraw, app_tick_count,
                   hue, view_vars, has_avx2, backend, term, irq, boot_tick, accepted, dropped,
                   read_hist>>

\* handle_input: RX_QUEUE.with leaves the critical section
InputUnlock ==
    /\ Running
    /\ pc = "unlock"
    /\ lock' = "none"
    /\ irq_enabled' = TRUE
    /\ pc' = run_next(pc)
    /\ UNCHANGED <<timer_vars, rx_vars, isr_spinning, needs_redraw, event,
                   app_tick_count, hue, view_vars, input, has_avx2, backend, term, irq, boot_tick,
                   rx_hist, read_hist>>

\* App::run: `if let Some(event) = event { match event ... }`
ApplyEvent ==
    /\ Running
    /\ pc = "apply"
    /\ IF event.type = "None"
       THEN /\ pc' = run_next(pc)
            /\ UNCHANGED <<view_vars, needs_redraw>>
       ELSE IF event.type = "Quit"
       THEN /\ pc' = "exited"
            /\ UNCHANGED <<view_vars, needs_redraw>>
       ELSE \E o \in apply_event(UiState, event) :
               /\ SetUi(o.ui)
               /\ needs_redraw' = TRUE
               /\ pc' = IF o.panic THEN "panicked" ELSE run_next(pc)
    /\ UNCHANGED <<timer_vars, rx_vars, cs_vars, event, app_tick_count, hue,
                   input, has_avx2, backend, term, irq, boot_tick, rx_hist, read_hist>>

\* App::run: `if needs_redraw { self.draw(..); needs_redraw = false }`
Draw ==
    /\ Running
    /\ pc = "draw"
    /\ IF needs_redraw
       THEN SetUi(render(UiState, has_avx2))
       ELSE UNCHANGED view_vars
    /\ needs_redraw' = FALSE
    /\ pc' = run_next(pc)
    /\ UNCHANGED <<timer_vars, rx_vars, cs_vars, event, app_tick_count, hue,
                   input, has_avx2, backend, term, irq, boot_tick, rx_hist, read_hist>>

MainStep ==
    \/ InitialDraw
    \/ Halt
    \/ Snapshot
    \/ HandleTicksPrint
    \/ HandleTicksSecond
    \/ InputLock
    \/ InputDequeue
    \/ InputUnlock
    \/ ApplyEvent
    \/ Draw

Next ==
    \/ \E b \in AppBytes : UartReceive(b)
    \/ TimerInterrupt
    \/ TimerWake
    \/ Com1Interrupt
    \/ MainStep

Spec == Init /\ [][Next]_vars

\* The processor keeps executing the main loop's statements, and the local
\* APIC timer is periodic: it keeps interrupting while interrupts are enabled.
\* The fair runs start one tick before the first second boundary.
InitLive == Init /\ boot_tick = TICKS_PER_SECOND - 1

SpecLive ==
    /\ InitLive
    /\ [][Next]_vars
    /\ WF_vars(MainStep)
    /\ WF_vars(TimerInterrupt \/ TimerWake)

\* C1: in the running application, after the initial draw, every pane's
\* ScrollHints has 0 <= y_offset <= max_offset, whatever bytes were handled
\* and whatever was rendered, the jump to the first match of a search included.
C1_ScrollBoundInApp ==
    pc # "init_draw" =>
        \A p \in {"cpuid", "fpu"} :
            /\ 0 <= scroll_hints[p].y_offset
            /\ scroll_hints[p].y_offset <= scroll_hints[p].max_offset

\* the divisor of the counter a read record is about
DivisorOf(r) == IF r.counter = "second" THEN TICKS_PER_SECOND ELSE TICKS_PER_EVENT

\* C3: each read-and-clear of the second-event (print-event) counter returns
\* the number of ticks that became a multiple of the divisor since the previous
\* read-and-clear of that counter; the returned values plus the counter's
\* current value sum to floor(tick / divisor) in every state; a read-and-clear
\* with no timer interrupt since the previous one returns 0.
C3_EventCountersExact ==
    /\ second_returned + second_events = tick \div TICKS_PER_SECOND
    /\ print_returned + print_events = tick \div TICKS_PER_EVENT
    /\ last.op = "read" =>
          /\ last.returned =
                (last.tick \div DivisorOf(last)) - (last.since \div DivisorOf(last))
          /\ last.tick = last.since => last.returned = 0

\* a boundary crossed between two reads was returned once by the later read,
\* after an earlier read had already returned one
C3_Witness ==
    /\ last.op = "read"
    /\ last.counter = "second"
    /\ last.since > 0
    /\ last.returned = 1
    /\ second_returned = 2
    /\ second_events = 0

\* C4: the bytes the main loop has dequeued are a prefix of the bytes enqueue
\* accepted, in the same order, and the rest of the accepted bytes is exactly
\* the queue's contents: none reordered, duplicated or skipped.
C4_DequeuedIsPrefixOfAccepted ==
    /\ Len(delivered) <= Len(accepted)
    /\ SubSeq(accepted, 1, Len(delivered)) = delivered
    /\ SubSeq(accepted, Len(delivered) + 1, Len(accepted)) = queue

\* two distinct bytes were dequeued while a third was accepted and queued
C4_Witness ==
    /\ Len(delivered) = 2
    /\ delivered[1] # delivered[2]
    /\ queue # <<>>

\* what the COM1 handler does to a queue with `room` free slots
C5_HandlerStep ==
    (uart_rx # <<>> /\ uart_rx' = <<>>) =>
        LET room == capacity - Len(queue)
            k == Min(room, Len(uart_rx))
        IN /\ queue' = queue \o SubSeq(uart_rx, 1, k)
           /\ dropped' = dropped + (Len(uart_rx) - k)
           /\ ~isr_spinning'

\* C5: enqueue on a full queue returns without blocking, the byte is dropped
\* and the queued bytes stay as they are; the queue never holds more than its
\* capacity; after an overflow the consumer still gets exactly the accepted
\* bytes in order.
C5_OverflowDropsNewByte ==
    /\ [](Len(queue) <= capacity)
    /\ [](dropped > 0 => accepted = delivered \o queue)
    /\ [][C5_HandlerStep]_vars

\* a byte was dropped and the consumer has received all the accepted bytes
C5_Witness ==
    /\ dropped > 0
    /\ Len(accepted) = capacity
    /\ delivered = accepted

C7_AcceptedEventuallyHandled ==
    \A i \in 1 .. MaxBytes :
        (Len(accepted) >= i) ~> (Len(delivered) >= i \/ pc = "exited")

\* a byte accepted between the dequeue and the next hlt has been handled
C7_Witness ==
    /\ prev.deferred > 0
    /\ Len(delivered) >= prev.deferred
    /\ pc # "exited"

-----------------------------------------------------------------------------
(* SpecUi: App::run one wake-up at a time.  Each step is a whole iteration *)
(* of the loop for one byte that the COM1 handler queued while the loop    *)
(* was halted: dequeue, Input::handle_byte, the `match event`, the redraw. *)
(* No timer interrupt is taken, so no tick event is pending.               *)

UiBytes == {B_SLASH, B_s, B_x, B_n, B_N, B_BACKSPACE, B_ENTER, B_ESC}

InitUi == Init /\ boot_tick = TICKS_PER_SECOND - 1

UiIteration(b) ==
    /\ Running
    /\ pc = "hlt"
    /\ Len(delivered) < MaxKeys
    /\ accepted' = Append(accepted, b)
    /\ delivered' = Append(delivered, b)
    /\ app_tick_count' = tick
    /\ LET r == handle_byte(mode, pane, input, b, tick) IN
          /\ input' = r.input
          /\ event' = r.event
          /\ last' = [op |-> "key", byte |-> b, mode |-> mode,
                      event |-> r.event.type, before |-> search_state]
          /\ IF r.event.type = "None"
             THEN /\ pc' = "hlt"
                  /\ UNCHANGED view_vars
             ELSE IF r.event.type = "Quit"
             THEN /\ pc' = "exited"
                  /\ UNCHANGED view_vars
             ELSE \E o \in apply_event(UiState, r.event) :
                     /\ SetUi(IF o.panic THEN o.ui ELSE render(o.ui, has_avx2))
                     /\ pc' = IF o.panic THEN "panicked" ELSE "hlt"
    /\ UNCHANGED <<timer_vars, rx_vars, cs_vars, needs_redraw, hue, has_avx2, backend, term, irq,
                   boot_tick, dropped, second_returned, print_returned, prev>>

NextUi ==
    \/ InitialDraw
    \/ \E b \in UiBytes : UiIteration(b)

SpecUi == InitUi /\ [][NextUi]_vars

\* C12: in Search mode, after every append-char or delete-last-char event: a
\* buffer of at least MIN_SEARCH_LEN characters has as matches exactly the
\* line offsets, in order, of the pane's entries whose label smart-contains
\* the buffer, with current_match 0; a shorter buffer has no matches.
C12_MatchesFollowBuffer ==
    (last.op = "key" /\ last.event \in {"SearchInput", "SearchBackspace"}) =>
        IF Len(search_buffer) >= MIN_SEARCH_LEN
        THEN /\ search_state.matches = cpuid_matches(search_buffer)
             /\ search_state.current_match = 0
        ELSE search_state.matches = <<>>

-----------------------------------------------------------------------------
(* SpecSearch: SearchState::next and SearchState::prev applied to every    *)
(* state with a non-empty matches list of up to MaxSmall offsets and a     *)
(* valid current_match.  `last` counts the run of equal calls and keeps    *)
(* the current_match the run started from.                                 *)

MatchLists ==
    UNION {[1 .. n -> 0 .. MaxSmall] : n \in 1 .. MaxSmall}

InitSearch ==
    /\ HwInit
    /\ HistInit
    /\ pc = "search"
    /\ needs_redraw = FALSE
    /\ event = NoEvent
    /\ input = InputNew
    /\ app_tick_count = 0
    /\ hue = 0
    /\ mode = "SearchResults"
    /\ pane = "Cpuid"
    /\ scroll_hints = [cpuid |-> ScrollHintsDefault, fpu |-> ScrollHintsDefault]
    /\ search_buffer = <<>>
    /\ has_avx2 = TRUE
    /\ backend = BackendNew
    /\ term = TermInit
    /\ irq = IrqIdle
    /\ \E ms \in MatchLists : \E c \in 0 .. (Len(ms) - 1) :
          search_state = [matches |-> ms, current_match |-> c,
                          last_query |-> <<>>]

\* the history of a call `op` with result r
SearchCalled(op, r) ==
    /\ search_state' = r.state
    /\ last' = IF last.op = op /\ last.count < Len(search_state.matches)
               THEN [last EXCEPT !.count = @ + 1,
                                 !.from = search_state.current_match,
                                 !.offset = r.offset]
               ELSE [op |-> op, count |-> 1,
                     origin |-> search_state.current_match,
                     from |-> search_state.current_match, offset |-> r.offset]
    /\ UNCHANGED <<hw_vars, pc, needs_redraw, event, app_tick_count, hue, mode,
                   pane, scroll_hints, search_buffer, input, has_avx2, backend, term, irq,
                   hist_vars, prev>>

SearchNext ==
    /\ pc = "search"
    /\ SearchCalled("next", SearchState_next(search_state))

SearchPrev ==
    /\ pc = "search"
    /\ SearchCalled("prev", SearchState_prev(search_state))

NextSearch == SearchNext \/ SearchPrev

SpecSearch == InitSearch /\ [][NextSearch]_vars

\* C13: len(matches) calls of next bring current_match back to where it was,
\* and so do len(matches) calls of prev; next from the last match goes to the
\* first, prev from the first goes to the last; each call returns
\* matches[current_match] for the new current_match.
C13_NextPrevWrapAround ==
    LET n == Len(search_state.matches)
        c == search_state.current_match
    IN last.op \in {"next", "prev"} =>
          /\ last.count = n => c = last.origin
          /\ (last.op = "next" /\ last.from = n - 1) => c = 0
          /\ (last.op = "prev" /\ last.from = 0) => c = n - 1
          /\ last.offset = search_state.matches[c + 1]

\* MaxSmall calls of prev on a list of MaxSmall matches, started at the first
C13_Witness ==
    /\ last.op = "prev"
    /\ Len(search_state.matches) = MaxSmall
    /\ last.count = MaxSmall
    /\ last.origin = 0
    /\ search_state.current_match = 0

\* C14: in every state of the application, a non-empty matches list has
\* 0 <= current_match < len(matches), and an empty one has current_match 0.
C14_CurrentMatchInRange ==
    IF search_state.matches = <<>>
    THEN search_state.current_match = 0
    ELSE /\ 0 <= search_state.current_match
         /\ search_state.current_match < Len(search_state.matches)

\* next-match moved off the first of several matches
C14_Witness ==
    /\ last.op = "key"
    /\ last.event = "NextMatch"
    /\ Len(search_state.matches) > 1
    /\ search_state.current_match = 1

\* C15: the counter drawn in SearchResults mode shows 0 as the current match
\* whenever it shows a match count of 0, and otherwise shows
\* (current_match + 1, len(matches)).
C15_CounterShowsZeroOfZero ==
    (mode = "SearchResults" /\ pc = "hlt") =>
        LET shown == match_counter(UiState) IN
        IF shown.match_count = 0
        THEN shown.current = 0
        ELSE /\ shown.current = search_state.current_match + 1
             /\ shown.match_count = Len(search_state.matches)

-----------------------------------------------------------------------------
(* SpecRender: a SerialAnsiBackend driven by draw, clear and clear_region  *)
(* calls, and the terminal behind its sink.  The terminal starts blank or  *)
(* showing earlier output.  In SpecRender the sink accepts every write (as *)
(* SerialPort's fmt::Write does); in SpecRenderFail it may reject one: a   *)
(* paint stops at the rejected write (the `?` in paint_full and            *)
(* paint_diff), clear panics on it (its unwrap).                           *)

\* positions a draw call may name: the area and one column to its right
UpdatePositions == Positions \cup {<<GridWidth, 0>>}

Contents ==
    UNION {[P -> CellVals] :
              P \in {Q \in SUBSET UpdatePositions : Cardinality(Q) <= MaxUpdates}}

\* what the terminal shows before the backend has written anything
TermStartGrids ==
    {BufferEmpty,
     [pos \in Positions |->
         [symbol |-> "b", fg |-> "Black", bg |-> "Yellow", bold |-> FALSE]]}

InitRender ==
    /\ HwInit
    /\ boot_tick = 0
    /\ accepted = <<>>
    /\ delivered = <<>>
    /\ dropped = 0
    /\ second_returned = 0
    /\ print_returned = 0
    /\ pc = "render"
    /\ needs_redraw = FALSE
    /\ event = NoEvent
    /\ input = InputNew
    /\ app_tick_count = 0
    /\ hue = 0
    /\ mode = "Navigation"
    /\ pane = "Cpuid"
    /\ scroll_hints = [cpuid |-> ScrollHintsDefault, fpu |-> ScrollHintsDefault]
    /\ search_buffer = <<>>
    /\ search_state = SearchStateDefault
    /\ has_avx2 = TRUE
    /\ irq = IrqIdle
    /\ backend = BackendNew
    /\ \E g \in TermStartGrids : term = [TermInit EXCEPT !.grid = g]
    /\ last = NoOp
    /\ prev = [op |-> "none", mode |-> "none", painted |-> FALSE, calls |-> 0]

\* the history kept of the calls before the one being made, and their number
\* with it
Earlier ==
    [op |-> last.op,
     mode |-> IF last.op = "draw" THEN last.mode ELSE "none",
     painted |-> prev.painted \/ last.op \in {"draw", "clear"},
     calls |-> Min(prev.calls + 1, MaxCalls)]

RenderFrame ==
    <<hw_vars, pc, needs_redraw, event, app_tick_count, hue, mode, pane,
      scroll_hints, search_buffer, search_state, input, has_avx2, irq,
      boot_tick, accepted, delivered, dropped, second_returned,
      print_returned>>

\* Backend::draw(content) with a sink that accepts the first k writes
RenderDraw(content, k) ==
    /\ pc = "render"
    /\ LET next == draw_next(backend, content)
           toks == draw_tokens(backend, next)
           failed == k < Len(toks)
           written == SubSeq(toks, 1, k)
       IN /\ k <= Len(toks)
          /\ failed => ~term.sink_failed
          /\ term' = [term_apply(term, written) EXCEPT !.sink_failed = @ \/ failed]
          /\ backend' = Backend_draw(backend, next)
          /\ last' = [op |-> "draw",
                      mode |-> IF backend.force_full_repaint THEN "full" ELSE "diff",
                      same |-> next = backend.prev,
                      n_updates |-> Cardinality(DOMAIN content \cap Positions),
                      bracketing_only |->
                          written = <<ansi_hide_cursor, ansi_reset, ansi_reset,
                                      ansi_show_cursor>>,
                      failed |-> failed,
                      prev_kept |-> backend'.prev = backend.prev,
                      next |-> next,
                      out |-> written]
    /\ prev' = Earlier
    /\ UNCHANGED RenderFrame

\* Backend::clear() with a sink that accepts the first k writes
RenderClear(k) ==
    /\ pc = "render"
    /\ k <= Len(clear_tokens)
    /\ k < Len(clear_tokens) => ~term.sink_failed
    /\ term' = [term_apply(term, SubSeq(clear_tokens, 1, k))
                  EXCEPT !.sink_failed = @ \/ k < Len(clear_tokens)]
    /\ IF k < Len(clear_tokens)
       THEN /\ pc' = "panicked"
            /\ UNCHANGED <<backend, last, prev>>
       ELSE /\ backend' = Backend_clear(backend)
            /\ last' = [op |-> "clear"]
            /\ prev' = Earlier
            /\ pc' = pc
    /\ UNCHANGED <<hw_vars, needs_redraw, event, app_tick_count, hue, mode,
                   pane, scroll_hints, search_buffer, search_state, input,
                   has_avx2, irq, boot_tick, accepted, delivered, dropped,
                   second_returned, print_returned>>

\* Backend::clear_region(_)
RenderClearRegion ==
    /\ pc = "render"
    /\ backend' = Backend_clear_region(backend)
    /\ last' = [op |-> "clear_region"]
    /\ prev' = Earlier
    /\ UNCHANGED <<RenderFrame, term>>

\* the number of writes a draw of content attempts
draw_len(content) == Len(draw_tokens(backend, draw_next(backend, content)))

NextRender ==
    \/ \E content \in Contents : RenderDraw(content, draw_len(content))
    \/ RenderClear(Len(clear_tokens))
    \/ RenderClearRegion

SpecRender == InitRender /\ [][NextRender]_vars

\* SpecRenderFail follows MaxCalls calls
CallsLeft == prev.calls < MaxCalls

NextRenderFail ==
    \/ CallsLeft /\ \E content \in Contents :
                       \E k \in 0 .. draw_len(content) : RenderDraw(content, k)
    \/ CallsLeft /\ \E k \in 0 .. Len(clear_tokens) : RenderClear(k)
    \/ CallsLeft /\ RenderClearRegion

SpecRenderFail == InitRender /\ [][NextRenderFail]_vars

\* a draw or a clear has returned
Painted == prev.painted \/ last.op \in {"draw", "clear"}

\* C16: a draw whose content leaves the frame as it was runs, once the flag
\* for a full repaint is down (so right after a full repaint of that frame
\* too), in diff mode and writes no cell: only the cursor-hide, the two
\* style resets and the cursor-show leave the backend.
C16_IdenticalFrameWritesNoCell ==
    (last.op = "draw" /\ last.same /\ prev.op = "draw")
        => (last.mode = "diff" /\ last.bracketing_only)

\* a full repaint of a frame that is not blank was followed by a draw that
\* carried cells, all equal to what the frame already held
C16_Witness ==
    /\ prev.op = "draw"
    /\ prev.mode = "full"
    /\ last.op = "draw"
    /\ last.mode = "diff"
    /\ last.same
    /\ last.n_updates > 0
    /\ last.bracketing_only
    /\ backend.prev # BufferEmpty

C18_FailedDrawKeepsPreviousFrame ==
    (last.op = "draw" /\ last.failed)
        => /\ last.prev_kept
           /\ last.mode = "full" => backend.force_full_repaint

\* C19 as stated: force_full_repaint is true on construction and after every
\* explicit clear (clear and clear_region) and false after every draw, so a
\* draw is a full repaint exactly when the call before it was the
\* construction, a clear or a clear_region.
C19_FlagSetByEveryClear ==
    /\ last.op = "none" => backend.force_full_repaint
    /\ last.op \in {"clear", "clear_region"} => backend.force_full_repaint
    /\ last.op = "draw" => ~backend.force_full_repaint
    /\ last.op = "draw" =>
          (last.mode = "full" <=> prev.op \in {"none", "clear", "clear_region"})

\* C19 amended: force_full_repaint is true on construction and after
\* clear_region, false after every draw and after every clear (which wipes
\* the terminal and blanks the previous frame itself); a draw is a full
\* repaint exactly when the call before it was the construction or a
\* clear_region, and a diff otherwise.
C19_FlagSetByNewAndClearRegion ==
    /\ last.op = "none" => backend.force_full_repaint
    /\ last.op = "clear_region" => backend.force_full_repaint
    /\ last.op \in {"draw", "clear"} => ~backend.force_full_repaint
    /\ last.op = "draw" =>
          (last.mode = "full" <=> prev.op \in {"none", "clear_region"})

\* a clear_region after a draw was followed by a full repaint, whose flag is
\* down again
C19_Witness ==
    /\ prev.op = "clear_region"
    /\ prev.painted
    /\ last.op = "draw"
    /\ last.mode = "full"
    /\ ~backend.force_full_repaint

-----------------------------------------------------------------------------
(* SpecIrq: the four interrupt handlers of interrupts::init and the local  *)
(* APIC they acknowledge.  The controller delivers a vector only while no  *)
(* interrupt is in service; a handler runs to completion (x86-interrupt    *)
(* handlers run with interrupts disabled).  The other specifications leave *)
(* the controller out: there a handler is its effect on the statics and    *)
(* the queue.                                                              *)

Handlers == {"timer", "com1", "error", "spurious"}

\* the local APIC takes a vector into service
lapic_deliver(l, h) == [l EXCEPT !.in_service = h]

\* Lapic::eoi
lapic_eoi(l) == [l EXCEPT !.eoi = @ + 1, !.in_service = "none"]

\* the handler returns (iretq)
handler_return(l) == [l EXCEPT !.completed = @ + 1]

\* com1_interrupt_handler after its loop, had it left early on a full queue
com1_interrupt_handler_eoi_unless_full(l, overflowed) ==
    IF overflowed THEN l ELSE lapic_eoi(l)

\* com1_interrupt_handler after its loop: lapic().eoi(), whatever the loop did
com1_interrupt_handler_eoi(l, overflowed) == lapic_eoi(l)

IrqCanDeliver == irq.in_service = "none" /\ irq.completed < MaxIrqs

IrqFrame ==
    <<cs_vars, pc, needs_redraw, event, app_tick_count, hue, view_vars,
      input, has_avx2, backend, term, boot_tick, second_returned,
      print_returned, prev>>

IrqTimer ==
    /\ IrqCanDeliver
    /\ LET st == timer_interrupt_handler(Statics) IN
          /\ tick' = st.tick
          /\ second_events' = st.second_events
          /\ print_events' = st.print_events
    /\ irq' = handler_return(lapic_eoi(lapic_deliver(irq, "timer")))
    /\ last' = [op |-> "irq", handler |-> "timer", eois |-> irq'.eoi - irq.eoi,
                overflowed |-> FALSE, ready |-> FALSE]
    /\ UNCHANGED <<rx_vars, rx_hist, IrqFrame>>

\* the COM1 interrupt with n bytes waiting in the UART (none: a line-status
\* or stale interrupt)
IrqCom1(n) ==
    /\ IrqCanDeliver
    /\ LET fifo == [i \in 1 .. n |-> B_s]
           r == com1_drain([queue |-> queue, accepted |-> accepted,
                            dropped |-> dropped], uart_rx \o fifo)
           overflowed == r.dropped > dropped
       IN /\ queue' = r.queue
          /\ accepted' = r.accepted
          /\ dropped' = r.dropped
          /\ uart_rx' = <<>>
          /\ irq' = handler_return(
                       com1_interrupt_handler_eoi(lapic_deliver(irq, "com1"),
                                                  overflowed))
          /\ last' = [op |-> "irq", handler |-> "com1",
                      eois |-> irq'.eoi - irq.eoi,
                      overflowed |-> overflowed, ready |-> n > 0]
    /\ UNCHANGED <<timer_vars, delivered, IrqFrame>>

IrqError ==
    /\ IrqCanDeliver
    /\ irq' = handler_return(lapic_eoi(lapic_deliver(irq, "error")))
    /\ last' = [op |-> "irq", handler |-> "error", eois |-> irq'.eoi - irq.eoi,
                overflowed |-> FALSE, ready |-> FALSE]
    /\ UNCHANGED <<timer_vars, rx_vars, rx_hist, IrqFrame>>

IrqSpurious ==
    /\ IrqCanDeliver
    /\ irq' = handler_return(lapic_eoi(lapic_deliver(irq, "spurious")))
    /\ last' = [op |-> "irq", handler |-> "spurious",
                eois |-> irq'.eoi - irq.eoi,
                overflowed |-> FALSE, ready |-> FALSE]
    /\ UNCHANGED <<timer_vars, rx_vars, rx_hist, IrqFrame>>

\* handle_input between two interrupts: the main loop takes one byte
IrqConsume ==
    /\ queue # <<>>
    /\ LET d == dequeue(queue) IN
          /\ queue' = d.queue
          /\ delivered' = Append(delivered, d.byte)
    /\ UNCHANGED <<timer_vars, uart_rx, accepted, dropped, irq, last, IrqFrame>>

NextIrq ==
    \/ IrqTimer
    \/ \E n \in 0 .. MaxBytes : IrqCom1(n)
    \/ IrqError
    \/ IrqSpurious
    \/ IrqConsume

SpecIrq == Init /\ [][NextIrq]_vars

\* C20: every invocation of every interrupt handler (timer, UART, error,
\* spurious) acknowledges the interrupt controller exactly once before it
\* returns, on every path, the full queue and the UART without a byte
\* included: the acknowledgements number the completed invocations, and no
\* interrupt stays in service.
C20_OneEoiPerInvocation ==
    /\ irq.eoi = irq.completed
    /\ irq.in_service = "none"
    /\ last.op = "irq" => last.eois = 1

\* the COM1 handler has just returned from a run that found the queue full,
\* after other invocations
C20_Witness ==
    /\ last.op = "irq"
    /\ last.handler = "com1"
    /\ last.overflowed
    /\ last.eois = 1
    /\ irq.completed > 1

-----------------------------------------------------------------------------
(* Claims on Spec: the tick counter, the order of a wake-up, the direction *)
(* in which the two contexts share state.                                  *)

\* C21: the tick counter is incremented by exactly one in each timer
\* interrupt and is changed by nothing else, so it never decreases and is
\* never reset; the application's snapshots of it never decrease and never
\* exceed the counter.
C21_TickCounterMonotonic ==
    [][/\ TimerInterrupt => tick' = tick + 1
       /\ tick' # tick => TimerInterrupt
       /\ app_tick_count' >= app_tick_count
       /\ app_tick_count' <= tick']_vars

\* the main loop took a snapshot of the counter and a timer interrupt has
\* incremented the counter since
C21_Witness ==
    /\ app_tick_count = boot_tick
    /\ tick = boot_tick + 1

-----------------------------------------------------------------------------
(* SpecCalib: interrupts::init runs Lapic::enable once on a machine drawn  *)
(* from CalibMachines; afterwards the timer pane is rendered.              *)

TscFrequencies == {OptNone, OptSome(50), OptSome(100), OptSome(1000), OptSome(2500)}

CalibMachines ==
    [tsc : TscFrequencies, elapsed : 0 .. MaxElapsed, pit_fires : BOOLEAN]

InitCalib ==
    /\ HwInit
    /\ HistInit
    /\ pc = "boot"
    /\ needs_redraw = FALSE
    /\ event = NoEvent
    /\ input = InputNew
    /\ app_tick_count = 0
    /\ hue = 0
    /\ mode = "Navigation"
    /\ pane = "Timer"
    /\ scroll_hints = [cpuid |-> ScrollHintsDefault, fpu |-> ScrollHintsDefault]
    /\ search_buffer = <<>>
    /\ search_state = SearchStateDefault
    /\ has_avx2 = TRUE
    /\ backend = BackendNew
    /\ term = TermInit
    /\ irq = LapicReset

CalibFrame ==
    <<hw_vars, needs_redraw, event, app_tick_count, hue, mode, pane,
      scroll_hints, search_buffer, search_state, input, has_avx2, backend,
      term, hist_vars>>

\* interrupts::init: lapic.enable()
CalibEnable(hw) ==
    /\ pc = "boot"
    /\ LET r == Lapic_enable(irq, hw) IN
          /\ irq' = r.lapic
          /\ pc' = CASE r.fault = "panic" -> "panicked"
                     [] r.fault = "hang" -> "hung"
                     [] OTHER -> "running"
          /\ last' = [op |-> "enable", hw |-> hw, tsc_ret |-> r.tsc_ret,
                      tried_pit |-> r.tried_pit, pit_ret |-> r.pit_ret]
    /\ UNCHANGED <<CalibFrame, prev>>

\* App::render_timer_pane
CalibRender ==
    /\ pc = "running"
    /\ prev' = [op |-> "render", lapic_freq_str |-> lapic_freq_str(irq)]
    /\ UNCHANGED <<CalibFrame, pc, irq, last>>

NextCalib ==
    \/ \E hw \in CalibMachines : CalibEnable(hw)
    \/ CalibRender

SpecCalib == InitCalib /\ [][NextCalib]_vars

WakeUpOrder ==
    {<<"init_draw", "hlt">>, <<"hlt", "halted">>, <<"halted", "snapshot">>,
     <<"snapshot", "ticks_print">>, <<"ticks_print", "ticks_second">>,
     <<"ticks_second", "lock">>, <<"lock", "dequeue">>,
     <<"dequeue", "unlock">>, <<"unlock", "apply">>, <<"apply", "draw">>,
     <<"apply", "exited">>, <<"apply", "panicked">>, <<"draw", "hlt">>}

\* C23: each wake-up of the main loop reads and clears each event counter
\* once, then dequeues at most one byte, then applies at most one UI event,
\* then performs at most one redraw, and halts again: the statements follow
\* one another in that order, and each effect happens only at its statement.
C23_OneEventPerWakeUp ==
    [][/\ pc' # pc => <<pc, pc'>> \in WakeUpOrder
       /\ (print_returned' # print_returned \/ print_events' < print_events)
             => (pc = "ticks_print" /\ print_events' = 0
                 /\ print_returned' = print_returned + print_events)
       /\ (second_returned' # second_returned \/ second_events' < second_events)
             => (pc = "ticks_second" /\ second_events' = 0
                 /\ second_returned' = second_returned + second_events)
       /\ (delivered' # delivered \/ Len(queue') < Len(queue))
             => (pc = "dequeue" /\ Len(queue') = Len(queue) - 1
                 /\ Len(delivered') = Len(delivered) + 1)
       /\ <<mode, pane, search_buffer, search_state>>'
             # <<mode, pane, search_buffer, search_state>> => pc = "apply"
       /\ scroll_hints' # scroll_hints => pc \in {"apply", "draw", "init_draw"}
       /\ (pc = "draw" /\ pc' = "hlt") => ~needs_redraw']_vars

\* a wake-up has read an event counter that was not zero, dequeued '/',
\* entered Search mode and redrawn, and the loop is about to halt again
C23_Witness ==
    /\ pc = "hlt"
    /\ print_returned > 0
    /\ delivered = <<B_SLASH>>
    /\ mode = "Search"
    /\ ~needs_redraw

-----------------------------------------------------------------------------
(* SpecUpdate: ScrollHints::update_from_render applied to content lengths  *)
(* (usize) and viewport heights (u16) around 0, around the examples of the *)
(* documentation and around the top of u16.                                *)

ContentLengths ==
    (0 .. MaxSmall) \cup {10, 50}
        \cup ((U16_MAX - MaxSmall) .. (U16_MAX + 1 + MaxSmall))

ViewportHeights == ScrollVals \cup {20}

InitUpdate ==
    /\ HwInit
    /\ HistInit
    /\ UiInit
    /\ pc = "update"
    /\ needs_redraw = FALSE
    /\ event = NoEvent
    /\ input = InputNew

UpdateStep(content_length, viewport_height) ==
    /\ pc = "update"
    /\ scroll_hints' =
          [scroll_hints EXCEPT
              !.cpuid = update_from_render(@, content_length, viewport_height)]
    /\ last' = [op |-> "update", content_length |-> content_length,
                viewport_height |-> viewport_height]
    /\ UNCHANGED <<hw_vars, pc, needs_redraw, event, app_tick_count, hue, mode,
                   pane, search_buffer, search_state, input, has_avx2, backend,
                   term, irq, hist_vars, prev>>

NextUpdate ==
    \E content_length \in ContentLengths, viewport_height \in ViewportHeights :
       UpdateStep(content_length, viewport_height)

SpecUpdate == InitUpdate /\ [][NextUpdate]_vars

\* C24: for every content_length and viewport_height, update_from_render
\* sets max_offset = max(0, content_length - viewport_height) and
\* page_height = max(0, viewport_height - 2).
C24_UpdateFromRender ==
    last.op = "update" =>
        /\ scroll_hints.cpuid.max_offset =
              (IF last.content_length > last.viewport_height
               THEN last.content_length - last.viewport_height ELSE 0)
        /\ scroll_hints.cpuid.page_height =
              (IF last.viewport_height > 2 THEN last.viewport_height - 2 ELSE 0)

-----------------------------------------------------------------------------
(* SpecSmart: smart_contains applied to every haystack and query of up to  *)
(* MaxStr characters over the letters e, f, E, F.                          *)

SmartAlphabet == {B_e, B_f, B_E, B_F}

SmartStrings == UNION {[1 .. n -> SmartAlphabet] : n \in 0 .. MaxStr}

InitSmart ==
    /\ HwInit
    /\ HistInit
    /\ UiInit
    /\ pc = "smart"
    /\ needs_redraw = FALSE
    /\ event = NoEvent
    /\ input = InputNew

SmartStep(haystack, query) ==
    /\ pc = "smart"
    /\ last' = [op |-> "smart_contains", haystack |-> haystack,
                query |-> query, result |-> smart_contains(haystack, query)]
    /\ pc' = "returned"
    /\ UNCHANGED <<hw_vars, ui_vars, needs_redraw, event, input, hist_vars,
                   prev>>

NextSmart ==
    \E haystack \in SmartStrings, query \in SmartStrings :
       SmartStep(haystack, query)

SpecSmart == InitSmart /\ [][NextSmart]_vars

\* two characters that are the same letter in either case
same_letter(c, d) ==
    \/ c = d
    \/ c \in B_A .. B_Z /\ d = c + 32
    \/ d \in B_A .. B_Z /\ c = d + 32

\* C25: smart_contains(haystack, query) is case-sensitive substring
\* containment when the query has an uppercase character, and substring
\* containment that ignores case otherwise.
C25_SmartCase ==
    last.op = "smart_contains" =>
        LET h == last.haystack
            q == last.query
            starts == 0 .. (Len(h) - Len(q))
            upper == \E j \in 1 .. Len(q) : q[j] \in B_A .. B_Z
            exact == \E i \in starts : \A j \in 1 .. Len(q) : h[i + j] = q[j]
            any_case == \E i \in starts :
                           \A j \in 1 .. Len(q) : same_letter(h[i + j], q[j])
        IN last.result = (IF upper THEN exact ELSE any_case)

\* a lowercase query was found in a haystack that holds it in uppercase only
C25_Witness ==
    /\ last.op = "smart_contains"
    /\ last.haystack = <<B_E, B_F>>
    /\ last.query = <<B_e, B_f>>
    /\ last.result

-----------------------------------------------------------------------------
(* SpecFind: find_matches applied to lists of up to MaxNames names, from   *)
(* start lines at both ends of u16.                                        *)

FindNames == {<<B_e, B_f>>, <<B_E, B_F>>, <<B_f>>}

FindLists == UNION {[1 .. n -> FindNames] : n \in 0 .. MaxNames}

FindQueries == {<<B_e>>, <<B_e, B_f>>, <<B_E>>, <<B_f, B_f>>}

InitFind ==
    /\ HwInit
    /\ HistInit
    /\ UiInit
    /\ pc = "find"
    /\ needs_redraw = FALSE
    /\ event = NoEvent
    /\ input = InputNew

FindStep(query, names, start_line) ==
    /\ pc = "find"
    /\ \E o \in find_matches_outcomes(query, names, start_line) :
          /\ last' = [op |-> "find_matches", query |-> query, names |-> names,
                      start_line |-> start_line, matches |-> o.matches]
          /\ pc' = IF o.panic THEN "panicked" ELSE "returned"
    /\ UNCHANGED <<hw_vars, ui_vars, needs_redraw, event, input, hist_vars,
                   prev>>

NextFind ==
    \E query \in FindQueries, names \in FindLists, start_line \in ScrollVals :
       FindStep(query, names, start_line)

SpecFind == InitFind /\ [][NextFind]_vars

\* C26: find_matches(query, features, start_line) returns, in strictly
\* increasing order, exactly the offsets start_line + i of the positions i
\* whose name smart-contains the query; a query that matches nothing yields
\* the empty list.
C26_FindMatchesOffsets ==
    last.op = "find_matches" =>
        LET hits == {i \in 1 .. Len(last.names) :
                        smart_contains(last.names[i], last.query)}
            m == last.matches
        IN /\ pc = "returned"
           /\ \A k \in 1 .. (Len(m) - 1) : m[k] < m[k + 1]
           /\ {m[k] : k \in 1 .. Len(m)} = {last.start_line + i - 1 : i \in hits}
           /\ Len(m) = Cardinality(hits)

\* C27: when matches is empty, next-match and previous-match return no
\* offset and change nothing: current_match, matches, last_query and every
\* pane's scroll offset are left as they were.
C27_NoMatchNoChange ==
    [][(/\ last'.op = "key"
        /\ last'.event \in {"NextMatch", "PrevMatch"}
        /\ search_state.matches = <<>>)
          => /\ ~SearchState_next(search_state).some
             /\ ~SearchState_prev(search_state).some
             /\ SearchState_next(search_state).state = search_state
             /\ SearchState_prev(search_state).state = search_state
             /\ search_state' = search_state
             /\ scroll_hints'.cpuid.y_offset = scroll_hints.cpuid.y_offset
             /\ scroll_hints'.fpu.y_offset = scroll_hints.fpu.y_offset]_vars

\* 'n' was handled after a confirmed search for a query nothing matches
C27_Witness ==
    /\ last.op = "key"
    /\ last.event = "NextMatch"
    /\ last.before.matches = <<>>
    /\ last.before.last_query # <<>>
    /\ search_state = last.before

IsPrefix(s, u) == Len(s) <= Len(u) /\ SubSeq(u, 1, Len(s)) = s

\* what belongs to the main loop alone: the UI state, the input state machine
\* and the frame buffers
main_loop_state ==
    <<view_vars, event, input, needs_redraw, app_tick_count, hue, backend, term>>

\* C28: the two contexts share state in one direction only.  The timer
\* handler modifies only the tick counter and the two event counters, the
\* UART handler only the queue, at its enqueue side, and neither touches UI
\* state; the main loop never writes the tick counter and never increments
\* an event counter: it reads the tick counter, reads and clears the event
\* counters and dequeues.
C28_OneWaySharing ==
    [][/\ TimerInterrupt => UNCHANGED <<queue, main_loop_state>>
       /\ Com1Interrupt =>
             /\ UNCHANGED <<timer_vars, main_loop_state>>
             /\ IsPrefix(queue, queue')
       /\ MainStep =>
             /\ tick' = tick
             /\ second_events' \in {second_events, 0}
             /\ print_events' \in {print_events, 0}
             /\ queue' = queue \/ (queue # <<>> /\ queue' = Tail(queue))]_vars

\* the timer handler has counted a tick, the UART handler has enqueued two
\* bytes, and the main loop has dequeued the first and applied it
C28_Witness ==
    /\ tick > boot_tick
    /\ delivered = <<B_SLASH>>
    /\ mode = "Search"
    /\ queue # <<>>

-----------------------------------------------------------------------------
(* Claims on SpecRender about what one draw writes                         *)

\* the cursor moves and the symbols among the writes, styles left out
cell_tokens(out) == SelectSeq(out, LAMBDA tok : tok.t \in {"goto", "sym"})

\* the place of a position in the order of the loops, rows outermost
row_major(pos) == pos[2] * GridWidth + pos[1]

\* the position a cursor move names, (row;column) counted from 1
goto_position(tok) == <<tok.col - 1, tok.row - 1>>

\* C29: in diff mode a draw emits cells for exactly the positions whose
\* symbol or style differs between previous and next, and for no other: each
\* emitted cell is preceded by a cursor move to exactly its position (1-based
\* row;column), the positions come in row-major order, and the output starts
\* with cursor-hide and ends with style-reset followed by cursor-show.
C29_DiffEmitsChangedCells ==
    [][(~backend.force_full_repaint /\ last'.op = "draw") =>
         LET old == backend.prev
             next == last'.next
             out == last'.out
             moves == cell_tokens(out)
             changed == {pos \in Positions :
                            \/ next[pos].symbol # old[pos].symbol
                            \/ cell_style(next[pos]) # cell_style(old[pos])}
             n == Cardinality(changed)
         IN /\ Len(moves) = 2 * n
            /\ \A i \in 1 .. n :
                  /\ moves[2 * i - 1].t = "goto"
                  /\ goto_position(moves[2 * i - 1]) \in changed
                  /\ moves[2 * i].t = "sym"
                  /\ moves[2 * i].s = next[goto_position(moves[2 * i - 1])].symbol
            /\ \A i \in 1 .. n - 1 :
                  row_major(goto_position(moves[2 * i - 1]))
                      < row_major(goto_position(moves[2 * i + 1]))
            /\ Len(out) >= 3
            /\ out[1] = ansi_hide_cursor
            /\ out[Len(out) - 1] = ansi_reset
            /\ out[Len(out)] = ansi_show_cursor]_vars

\* a diff draw has written two cells, the first and the last of the frame,
\* and left the two between them alone
C29_Witness ==
    /\ last.op = "draw"
    /\ last.mode = "diff"
    /\ Len(cell_tokens(last.out)) = 4
    /\ cell_tokens(last.out)[1] = ansi_goto(0, 0)
    /\ cell_tokens(last.out)[3] = ansi_goto(GridWidth - 1, GridHeight - 1)
    /\ backend.prev = last.next

\* C30: when force_full_repaint is set a draw emits cursor-hide, then
\* clear-and-home, then for every row from top to bottom a cursor move to the
\* start of the row followed by every cell of the row from left to right
\* (width x height cells in total), then style-reset and cursor-show;
\* afterwards the flag is cleared and previous equals next.
C30_FullRepaintOrder ==
    [][(backend.force_full_repaint /\ last'.op = "draw") =>
         LET next == last'.next
             out == last'.out
             moves == cell_tokens(out)
         IN /\ Len(out) >= 4
            /\ out[1] = ansi_hide_cursor
            /\ out[2] = ansi_clear_screen
            /\ Len(moves) = GridHeight * (GridWidth + 1)
            /\ \A y \in 0 .. GridHeight - 1 :
                  /\ moves[y * (GridWidth + 1) + 1] = ansi_goto(0, y)
                  /\ \A x \in 0 .. GridWidth - 1 :
                        moves[y * (GridWidth + 1) + 2 + x]
                            = write_cell_symbol(next[<<x, y>>])
            /\ Cardinality({i \in 1 .. Len(out) : out[i].t = "sym"})
                   = GridWidth * GridHeight
            /\ out[Len(out) - 1] = ansi_reset
            /\ out[Len(out)] = ansi_show_cursor
            /\ ~backend'.force_full_repaint
            /\ backend'.prev = next]_vars

\* clear_region raised the flag after a diff draw, and the draw that followed
\* repainted a frame holding a bold and a highlighted cell in full
C30_Witness ==
    /\ prev.op = "clear_region"
    /\ last.op = "draw"
    /\ last.mode = "full"
    /\ last.out[2] = ansi_clear_screen
    /\ \E p, q \in Positions : last.next[p].bold /\ last.next[q].bg = "Yellow"
    /\ ~backend.force_full_repaint
    /\ backend.prev = last.next

\* the position the loops of paint_full and paint_diff visit i-th
position_at(i) == <<(i - 1) % GridWidth, (i - 1) \div GridWidth>>

\* the cells a draw writes, in the order it writes them
written_cells(full, old, next) ==
    SelectSeq([i \in 1 .. GridWidth * GridHeight |-> position_at(i)],
              LAMBDA pos : full \/ cell_changed(next[pos], old[pos]))

\* where in the writes the symbols are
symbol_indices(out) ==
    SelectSeq([j \in 1 .. Len(out) |-> j], LAMBDA j : out[j].t = "sym")

\* C31: within one draw, full or diff, a style-change sequence is emitted
\* immediately before a cell if and only if the cell's style differs from the
\* style of the last cell written in that draw, the reset style for the first
\* cell; and every cell is written while the terminal's active style is the
\* cell's style.
C31_StyleRunCompression ==
    [][last'.op = "draw" =>
         LET next == last'.next
             out == last'.out
             cells == written_cells(backend.force_full_repaint, backend.prev, next)
             at == symbol_indices(out)
         IN /\ Len(at) = Len(cells)
            /\ \A k \in 1 .. Len(cells) :
                  LET style == cell_style(next[cells[k]])
                      before == IF k = 1 THEN cell_style(CellEmpty)
                                ELSE cell_style(next[cells[k - 1]])
                  IN /\ out[at[k] - 1].t = "sgr" <=> style # before
                     /\ term'.grid[cells[k]] = next[cells[k]]]_vars

-----------------------------------------------------------------------------
(* Claims on SpecUi about search navigation                                *)

\* the ScrollHints of the active pane
active_hints == IF pane = "Cpuid" THEN scroll_hints.cpuid ELSE scroll_hints.fpu

\* C32: search navigation moves the active pane with scroll_to: after a
\* search that yields at least one match, and after every next-match or
\* previous-match with non-empty matches, the active pane's y_offset equals
\* min(matches[current_match], max_offset).
C32_SearchScrollsWithScrollTo ==
    (/\ last.op = "key"
     /\ last.event \in {"SearchInput", "SearchBackspace", "NextMatch", "PrevMatch"}
     /\ search_state.matches # <<>>)
        => active_hints.y_offset
              = Min(search_state.matches[search_state.current_match + 1],
                    active_hints.max_offset)

-----------------------------------------------------------------------------
(* SpecIndex: the search index and the rendered line list of the CPUID     *)
(* pane and of the MSR pane, for sections of up to MaxSection labels and   *)
(* up to MaxCats MSR categories.  The label k of section s is the name     *)
(* <<s, k>>, so a query for it matches that label alone.                   *)

SectionNames(s) ==
    {[k \in 1 .. n |-> <<s, k>>] : n \in 0 .. MaxSection}

CategoryLists ==
    UNION {{[s \in 1 .. c |-> [k \in 1 .. lens[s] |-> <<s, k>>]] :
               lens \in [1 .. c -> 0 .. MaxSection]} : c \in 0 .. MaxCats}

InitIndex ==
    /\ HwInit
    /\ HistInit
    /\ UiInit
    /\ pc = "index"
    /\ needs_redraw = FALSE
    /\ event = NoEvent
    /\ input = InputNew

IndexFrame == <<hw_vars, ui_vars, needs_redraw, event, input, hist_vars, prev>>

\* the index as (name, line) pairs: the lines a search for each label finds
IndexCpuid(features, extended, supports) ==
    /\ pc = "index"
    /\ last' = [op |-> "index", pane |-> "Cpuid",
                sections |-> <<Len(features), Len(extended), Len(supports)>>,
                rows |-> cpuid_render_lines(features, extended, supports, NSizes),
                items |-> {[name |-> nm,
                            lines |-> cpuid_search_lines(nm, features, extended,
                                                         supports)] :
                              nm \in {features[k] : k \in 1 .. Len(features)}
                                  \cup {extended[k] : k \in 1 .. Len(extended)}
                                  \cup {supports[k] : k \in 1 .. Len(supports)}}]
    /\ pc' = "returned"
    /\ UNCHANGED IndexFrame

IndexMsr(categories) ==
    /\ pc = "index"
    /\ LET items == msr_search_items(categories) IN
       last' = [op |-> "index", pane |-> "Msr",
                sections |-> [s \in 1 .. Len(categories) |-> Len(categories[s])],
                rows |-> msr_render_lines(categories),
                items |-> {[name |-> items[j].name, lines |-> <<items[j].line>>] :
                              j \in 1 .. Len(items)}]
    /\ pc' = "returned"
    /\ UNCHANGED IndexFrame

NextIndex ==
    \/ \E features \in SectionNames(1), extended \in SectionNames(2),
          supports \in SectionNames(3) : IndexCpuid(features, extended, supports)
    \/ \E categories \in CategoryLists : IndexMsr(categories)

SpecIndex == InitIndex /\ [][NextIndex]_vars

\* the number of labels in all sections
label_count(sections) ==
    Cardinality({<<s, k>> \in (1 .. Len(sections)) \X (1 .. MaxSection + 1) :
                    k <= sections[s]})

\* C33: for every searchable pane and any lengths of its sections, the line
\* offset the search index assigns to a label is the row index at which the
\* pane's render places that label's line, and only labels are in the index:
\* headers and blank lines are not, but each takes one offset.
C33_IndexMatchesRenderedRows ==
    last.op = "index" =>
        /\ \A it \in last.items :
              /\ Len(it.lines) = 1
              /\ it.lines[1] + 1 \in 1 .. Len(last.rows)
              /\ last.rows[it.lines[1] + 1] = RowLabel(it.name)
        /\ \A r \in 1 .. Len(last.rows) :
              last.rows[r].kind = "label"
                  => \E it \in last.items : it.name = last.rows[r].name
        /\ Cardinality(last.items) = label_count(last.sections)

\* the CPUID pane with every section at its largest: the last label of the
\* third section is found on the row after two more headers and blanks
C33_Witness ==
    /\ last.op = "index"
    /\ last.pane = "Cpuid"
    /\ last.sections = <<MaxSection, MaxSection, MaxSection>>
    /\ [name |-> <<3, MaxSection>>, lines |-> <<3 * MaxSection + 8>>]
          \in last.items
    /\ last.rows[3 * MaxSection + 9] = RowLabel(<<3, MaxSection>>)

\* C34: every entry into Search mode, from Navigation or from SearchResults,
\* empties the search buffer and resets the search state to empty: matches
\* = [], current_match = 0 and last_query = "".
C34_SearchEntryResets ==
    [][((mode # "Search" /\ mode' = "Search")
           \/ (last'.op = "key" /\ last'.event = "EnterSearchMode"))
          => /\ mode' = "Search"
             /\ search_buffer' = <<>>
             /\ search_state'
                   = [matches |-> <<>>, current_match |-> 0, last_query |-> <<>>]]_vars

\* '/' was pressed in SearchResults mode after a search that had matches
C34_Witness ==
    /\ last.op = "key"
    /\ last.event = "EnterSearchMode"
    /\ last.mode = "SearchResults"
    /\ Len(last.before.matches) > 1
    /\ last.before.last_query # <<>>
    /\ mode = "Search"
    /\ search_buffer = <<>>
    /\ search_state = SearchStateDefault

-----------------------------------------------------------------------------
(* Claims on Spec about bytes without a meaning and about redraws          *)

\* the bytes the `match byte` of a mode has an arm for
recognised(m, p, byte) ==
    CASE m = "Search" ->
            \/ byte \in {B_ESC, B_DEL, B_BACKSPACE, B_ENTER}
            \/ (byte >= B_SPACE /\ byte < B_DEL)
      [] m = "SearchResults" -> byte \in {B_ESC, B_ENTER, B_n, B_N, B_SLASH}
      [] OTHER ->
            \/ byte \in {B_q, B_c, B_f, B_x, B_t, B_j, B_k, B_G, B_CTRL_F,
                         B_CTRL_B, B_g}
            \/ (byte = B_SLASH /\ p = "Cpuid")

\* C35: a byte the current mode does not recognise is silently ignored:
\* handle_byte returns no event for it; mode, active pane, every scroll
\* offset, search buffer and search state stay as they are while it is
\* handled, and the byte by itself raises no redraw.
C35_UnrecognisedByteIgnored ==
    [][/\ (pc = "dequeue" /\ pc' = "unlock" /\ queue # <<>>
              /\ ~recognised(mode, pane, Head(queue)))
           => (event' = NoEvent /\ UNCHANGED <<view_vars, needs_redraw>>)
       /\ (pc \in {"unlock", "apply"} /\ event = NoEvent)
           => UNCHANGED <<view_vars, needs_redraw>>
       /\ (pc = "draw" /\ ~needs_redraw)
           => UNCHANGED <<view_vars, backend, term>>]_vars

\* Ctrl+B arrived in Search mode and has been handled: nothing typed, nothing
\* to redraw
C35_Witness ==
    /\ delivered = <<B_SLASH, B_CTRL_B>>
    /\ pc = "hlt"
    /\ mode = "Search"
    /\ search_buffer = <<>>
    /\ event = NoEvent
    /\ ~needs_redraw

\* C36: the renderer is invoked in a main-loop iteration only if something
\* changed in it: an event counter read back nonzero or the input state
\* machine produced a UI event.  An iteration in which both counters read 0
\* and no event was produced performs no draw.
C36_DrawOnlyOnChange ==
    [][(pc = "draw" /\ pc' = "hlt") =>
         LET changed == \/ last.color_events > 0
                        \/ last.returned > 0
                        \/ event # NoEvent
         IN /\ last.op = "read"
            /\ last.counter = "second"
            /\ needs_redraw => changed
            /\ ~changed => UNCHANGED <<view_vars, backend, term>>]_vars

\* a timer interrupt that completed no event woke the loop, no byte was
\* waiting, and the iteration has passed its `if needs_redraw`
C36_Witness ==
    /\ pc = "hlt"
    /\ tick > boot_tick
    /\ last.op = "read"
    /\ last.counter = "second"
    /\ last.tick = tick
    /\ last.color_events = 0
    /\ last.returned = 0
    /\ event = NoEvent
    /\ delivered = <<>>
    /\ ~needs_redraw

-----------------------------------------------------------------------------
(* SpecReload: the arithmetic of one calibration, for elapsed counts over   *)
(* the whole of u32 and for the PIT and a few TSC frequencies.             *)

\* elapsed_lapic_ticks = start_count - end_count: any u32, here with bytes
\* 0x00, 0x01 and 0xFF
ElapsedCounts == [1 .. 4 -> {0, 1, 255}]

\* cpuid::tsc_frequency() in Hz
ReloadTscFrequencies == {100, 150, 1000, 2500, 1000000}

InitReload ==
    /\ HwInit
    /\ HistInit
    /\ UiInit
    /\ pc = "calibrate"
    /\ needs_redraw = FALSE
    /\ event = NoEvent
    /\ input = InputNew

ReloadFrame == <<hw_vars, ui_vars, needs_redraw, event, input, hist_vars, prev>>

ReloadTsc(elapsed, tsc_freq) ==
    /\ pc = "calibrate"
    /\ LET r == tsc_calibrated(elapsed, tsc_freq) IN
       last' = [op |-> "calibrate", reference |-> "tsc", ref_freq |-> tsc_freq,
                elapsed |-> elapsed,
                lapic_freq |-> r.lapic_freq, initial_count |-> r.initial_count,
                overflow |-> r.overflow]
    /\ pc' = "returned"
    /\ UNCHANGED ReloadFrame

ReloadPit(elapsed) ==
    /\ pc = "calibrate"
    /\ LET r == pit_calibrated(elapsed) IN
       last' = [op |-> "calibrate", reference |-> "pit",
                ref_freq |-> PIT_FREQUENCY, elapsed |-> elapsed,
                lapic_freq |-> r.lapic_freq, initial_count |-> r.initial_count,
                overflow |-> r.overflow]
    /\ pc' = "returned"
    /\ UNCHANGED ReloadFrame

NextReload ==
    \/ \E elapsed \in ElapsedCounts, tsc_freq \in ReloadTscFrequencies :
          ReloadTsc(elapsed, tsc_freq)
    \/ \E elapsed \in ElapsedCounts : ReloadPit(elapsed)

SpecReload == InitReload /\ [][NextReload]_vars

\* a u64 brought into u32 by clamping: min(x, 2^32 - 1)
as_u32_clamped(x) ==
    IF \E i \in 5 .. 8 : x[i] # 0 THEN <<255, 255, 255, 255>>
    ELSE SubSeq(x, 1, 4)

\* C37: on successful calibration the reload value programmed is
\* calibrated_freq / target_hz by integer division, clamped to the 32 bits of
\* the reload register: min(calibrated_freq / 100, 2^32 - 1) for every
\* measured tick count and reference frequency, never a wrapped or truncated
\* value.
C37_ReloadClamped ==
    last.op = "calibrate" =>
        last.initial_count
            = as_u32_clamped(u64_div(last.lapic_freq, TARGET_TIMER_HZ))

-----------------------------------------------------------------------------
(* SpecMeasure: Lapic::enable statement by statement on a machine drawn    *)
(* from CalibMachines.  prev keeps the machine and the statements executed.*)

InitMeasure == InitCalib

MeasureBoot(hw) ==
    /\ pc = "boot"
    /\ pc' = "calibrating"
    /\ prev' = [hw |-> hw, trace |-> <<>>]
    /\ UNCHANGED <<CalibFrame, irq, last>>

MeasureStep ==
    /\ pc = "calibrating"
    /\ LET program == enable_program(prev.hw)
           s == program[Len(prev.trace) + 1]
           fault == step_fault(s, prev.hw)
       IN /\ last' = [op |-> "step", step |-> s,
                      timer_enabled |-> irq.timer_enabled]
          /\ IF fault # "none"
             THEN /\ pc' = IF fault = "panic" THEN "panicked" ELSE "hung"
                  /\ UNCHANGED <<irq, prev>>
             ELSE /\ irq' = lapic_step(irq, s, prev.hw)
                  /\ prev' = [prev EXCEPT !.trace = Append(@, s)]
                  /\ pc' = IF Len(prev.trace) + 1 = Len(program)
                           THEN "running" ELSE pc
    /\ UNCHANGED CalibFrame

NextMeasure ==
    \/ \E hw \in CalibMachines : MeasureBoot(hw)
    \/ MeasureStep

SpecMeasure == InitMeasure /\ [][NextMeasure]_vars

\* the calls on the timer in a run of Lapic::enable, in the order made
timer_calls(trace) ==
    SelectSeq(trace, LAMBDA s : s.op \in {"set_timer_mode", "disable_timer",
                                         "set_timer_initial", "enable_timer",
                                         "wait", "timer_current"})

\* the order the claim gives
MeasurementOrder ==
    <<"set_timer_mode", "disable_timer", "set_timer_initial", "enable_timer",
      "wait", "disable_timer", "timer_current",
      "set_timer_mode", "set_timer_initial", "enable_timer">>

\* C38: in every calibration measurement the steps occur in this order: timer
\* set to one-shot and disabled, start count programmed, timer enabled,
\* busy-wait on the reference clock, timer disabled, and only then the
\* current count read, never from a running timer; periodic mode with the
\* final reload value is programmed only after the measurement has finished.
C38_MeasurementOrder ==
    pc \in {"calibrating", "running", "panicked", "hung"} =>
        LET calls == timer_calls(prev.trace) IN
        /\ Len(calls) <= Len(MeasurementOrder)
        /\ \A i \in 1 .. Len(calls) :
              /\ calls[i].op = MeasurementOrder[i]
              /\ calls[i].op = "set_timer_mode"
                    => calls[i].mode = IF i = 1 THEN "OneShot" ELSE "Periodic"
              /\ calls[i].op = "set_timer_initial"
                    => calls[i].count = IF i = 3 THEN "start_count"
                                        ELSE "initial_count"
        /\ (last.op = "step" /\ last.step.op = "timer_current")
              => ~last.timer_enabled
        /\ irq.timer_mode = "Periodic" => Len(calls) >= 8

\* a PIT measurement has finished and the periodic timer runs with the
\* reload value it gave
C38_Witness ==
    /\ pc = "running"
    /\ ~prev.hw.tsc.some
    /\ Len(timer_calls(prev.trace)) = Len(MeasurementOrder)
    /\ irq = Lapic_enable(LapicReset, prev.hw).lapic
    /\ irq.timer_enabled
    /\ irq.timer_initial > 0

-----------------------------------------------------------------------------
(* Claim on SpecScroll about the arithmetic of scroll().                   *)

\* C39: scroll(direction) saturates on its 16-bit offsets: from every
\* ScrollHints with y_offset <= max_offset no direction overflows or
\* underflows, PageDown yields min(y_offset + page_height, max_offset) with the
\* sum taken without wraparound, and PageUp yields max(0, y_offset - page_height).
C39_ScrollSaturates ==
    last.op = "scroll" =>
        LET h == scroll_hints.cpuid IN
        /\ pc # "panicked"
        /\ last.dir = "PageDown"
              => h.y_offset = Min(last.before + h.page_height, h.max_offset)
        /\ last.dir = "PageUp"
              => h.y_offset = saturating_sub(last.before, h.page_height)

-----------------------------------------------------------------------------
(* Claim on SpecUi about the pane of a search.                             *)

\* the panes with a search (build without the "msr" feature)
SearchablePanes == {"Cpuid"}

SearchModes == {"Search", "SearchResults"}

\* C40: whenever the mode is Search or SearchResults the active pane supports
\* search: the pane changes only in a step taken in Navigation mode that stays
\* there, and Search mode is entered from Navigation only on a searchable
\* pane, so a search keeps the pane it was started on.
C40_SearchOnSearchablePane ==
    /\ mode \in SearchModes => pane \in SearchablePanes
    /\ [][/\ mode' \in SearchModes => pane' \in SearchablePanes
          /\ pane' # pane => mode = "Navigation" /\ mode' = "Navigation"
          /\ mode = "Navigation" /\ mode' = "Search" => pane \in SearchablePanes
          /\ mode \in SearchModes /\ mode' \in SearchModes => pane' = pane]_vars

C40_Witness ==
    /\ last.op = "key" /\ last.byte = B_x /\ last.mode = "SearchResults"
    /\ mode = "SearchResults" /\ pane = "Cpuid"
    /\ Len(search_state.matches) > 0
    /\ scroll_hints.cpuid.y_offset > 0

====
